---- MODULE Spec2Model ----
(***************************************************************************)
(* The entry merge / publish pipeline of the qmp repository.               *)
(*                                                                         *)
(* Files on disk are the state: the archive (archivo.json), the pending    *)
(* keywords record (pending_keywords.txt) and the pending entry record     *)
(* (pending_entry.json).  Dates are day ordinals 1..MaxDate (the order of  *)
(* YYYY-MM-DD strings is the order of the days); 0 is the empty string.    *)
(* The non-keyword fields of an entry (month, file, titles, snippets,      *)
(* analysis) are a function of the text file they are built from and are   *)
(* carried as one value, `content`.  Words are sequences of characters.    *)
(***************************************************************************)
EXTENDS Integers, Sequences, FiniteSets, TLC

VARIABLES
    layout,        \* "state": data/archivo.json + state/pending_* (qmp/, qcrear, qcambiar)
                   \* "scripts": archivo.json + scripts/pending_* (scripts/merge_pending.py)
    archivo,       \* the archive file: [shape, meta, entries]
    pendingKw,     \* the pending keywords file
    pendingEntry,  \* the pending entry file
    last,          \* outcome of the last command: what it printed and how it exited
    written,       \* per date, the entry the last merge that wrote the archive put there
    txt,           \* per date, the text file textos/DATE.txt (0: no file, else its content)
    run,           \* the orchestrator run: where it waits, its flags, what it did so far
    pull,          \* the sections pulled from Docs and those of the text file, with
                   \* the fingerprints computed from them
    entry_txt,     \* one entry text file as written, line by line, the date it is
                   \* validated for and what validate_entry.py answered
    lookup         \* archivo.json as the JSON value json.load returns, a date, and
                   \* what the existence checks of qcrear and qcambiar answered

vars == <<layout, archivo, pendingKw, pendingEntry, last, written, txt, run, pull, entry_txt,
          lookup>>

-----------------------------------------------------------------------------
(* Bounds *)

MaxDate == 2
MaxContent == 2

Dates == 1..MaxDate
Contents == 1..MaxContent

-----------------------------------------------------------------------------
(* Characters and words *)

\* code points, for Python's string comparison
CharCode(c) ==
    CASE c = " " -> 32
      [] c = "A" -> 65
      [] c = "a" -> 97
      [] c = "b" -> 98
      [] c = "á" -> 225
      [] OTHER -> 0

IsSpace(c) == c = " "

\* unicodedata.normalize("NFKD", s) followed by dropping the combining marks
strip_accents(s) == [i \in 1..Len(s) |-> IF s[i] = "á" THEN "a" ELSE s[i]]

lower(s) == [i \in 1..Len(s) |-> IF s[i] = "A" THEN "a" ELSE s[i]]

RECURSIVE lstrip(_)
lstrip(s) == IF s # <<>> /\ IsSpace(Head(s)) THEN lstrip(Tail(s)) ELSE s

RECURSIVE rstrip(_)
rstrip(s) ==
    IF s # <<>> /\ IsSpace(s[Len(s)]) THEN rstrip(SubSeq(s, 1, Len(s) - 1)) ELSE s

strip(s) == rstrip(lstrip(s))

\* " ".join(s.split()): the whitespace-separated tokens joined by one space
RECURSIVE split_join(_)
split_join(s) ==
    LET t == lstrip(s)
    IN  IF t = <<>> THEN <<>>
        ELSE IF ~IsSpace(Head(t)) THEN
                 <<Head(t)>> \o (IF Tail(t) # <<>> /\ IsSpace(Head(Tail(t)))
                                     /\ lstrip(Tail(t)) # <<>>
                                 THEN <<" ">> \o split_join(lstrip(Tail(t)))
                                 ELSE split_join(Tail(t)))
        ELSE <<>>

norm_word(s) == split_join(strip(lower(strip_accents(s))))

\* Python's < on two strings
RECURSIVE WordLess(_, _)
WordLess(a, b) ==
    IF b = <<>> THEN FALSE
    ELSE IF a = <<>> THEN TRUE
    ELSE IF CharCode(Head(a)) # CharCode(Head(b))
         THEN CharCode(Head(a)) < CharCode(Head(b))
         ELSE WordLess(Tail(a), Tail(b))

-----------------------------------------------------------------------------
(* Keyword normalization, qmp/merge_pending.py *)

Min2(a, b) == IF a < b THEN a ELSE b
Max2(a, b) == IF a > b THEN a ELSE b

\* int(item.get("weight", 1)), 1 when that raises, clamped to [1,3]
ClampWeight(item) ==
    LET weight == IF item.hasWeight THEN item.weight ELSE 1
    IN  Max2(1, Min2(3, weight))

\* a bug: best[w] = weight, the last weight seen wins
BestPutLast(best, w, weight) ==
    IF \E i \in 1..Len(best) : best[i].word = w
    THEN [i \in 1..Len(best) |->
            IF best[i].word = w
            THEN [word |-> w, weight |-> weight, hasWeight |-> TRUE]
            ELSE best[i]]
    ELSE Append(best, [word |-> w, weight |-> weight, hasWeight |-> TRUE])

\* a bug: best[w] = best.get(w, 0) + weight, the weights add up
BestPutSum(best, w, weight) ==
    IF \E i \in 1..Len(best) : best[i].word = w
    THEN [i \in 1..Len(best) |->
            IF best[i].word = w
            THEN [word |-> w, weight |-> best[i].weight + weight, hasWeight |-> TRUE]
            ELSE best[i]]
    ELSE Append(best, [word |-> w, weight |-> weight, hasWeight |-> TRUE])

\* best[w] = max(best.get(w, 0), weight), the dict kept in insertion order
BestPut(best, w, weight) ==
    IF \E i \in 1..Len(best) : best[i].word = w
    THEN [i \in 1..Len(best) |->
            IF best[i].word = w
            THEN [word |-> w, weight |-> Max2(best[i].weight, weight), hasWeight |-> TRUE]
            ELSE best[i]]
    ELSE Append(best, [word |-> w, weight |-> Max2(0, weight), hasWeight |-> TRUE])

RECURSIVE BestOf(_)
BestOf(raw) ==
    IF raw = <<>> THEN <<>>
    ELSE LET best == BestOf(SubSeq(raw, 1, Len(raw) - 1))
             item == raw[Len(raw)]
             w == norm_word(item.word)
         IN  IF w = <<>> THEN best ELSE BestPut(best, w, ClampWeight(item))

\* the sort key (-weight, word)
KwBefore(x, y) ==
    \/ x.weight > y.weight
    \/ x.weight = y.weight /\ WordLess(x.word, y.word)

RECURSIVE KwInsert(_, _)
KwInsert(sorted, x) ==
    IF sorted = <<>> THEN <<x>>
    ELSE IF KwBefore(x, Head(sorted)) THEN <<x>> \o sorted
    ELSE <<Head(sorted)>> \o KwInsert(Tail(sorted), x)

\* a bug: out.sort(...) left out, the words stay in the order they came in
KwUnsorted(s) == s

RECURSIVE KwSort(_)
KwSort(s) ==
    IF s = <<>> THEN <<>>
    ELSE KwInsert(KwSort(SubSeq(s, 1, Len(s) - 1)), s[Len(s)])

\* the raw list of a payload: the list itself, or the "keywords" of an object
PayloadRaw(payload) ==
    IF payload.kind \in {"list", "dict"} THEN payload.keywords ELSE <<>>

normalize_keywords(payload) == KwSort(BestOf(PayloadRaw(payload)))

\* a keyword list taken from an entry, seen as a payload
AsPayload(kws) ==
    [kind |-> "list", hasDate |-> FALSE, date |-> 0, fp |-> 0, keywords |-> kws]

\* a bug: the raw lists are compared
keywords_equal_raw(a, b) == a = b

keywords_equal(a, b) == normalize_keywords(AsPayload(a)) = normalize_keywords(AsPayload(b))

-----------------------------------------------------------------------------
(* Files *)

\* a keyword item as JSON holds it: "weight" may be absent
Item(word, weight, hasWeight) == [word |-> word, weight |-> weight, hasWeight |-> hasWeight]

ItAcc == Item(<<"á">>, 1, TRUE)
ItUp == Item(<<"A", " ">>, 5, TRUE)
ItB == Item(<<"b">>, 0, FALSE)
ItBlank == Item(<<" ">>, 2, TRUE)

\* the keyword lists that get pasted or generated into the pending record
KwLists == {<<>>, <<ItBlank>>, <<ItB, ItAcc>>}

MissingKw == [kind |-> "missing", hasDate |-> FALSE, date |-> 0, fp |-> 0, keywords |-> <<>>]

\* a cleanup that leaves a record with a date and a keyword
PlaceholderKwStale ==
    [kind |-> "dict", hasDate |-> TRUE, date |-> 1, fp |-> 0, keywords |-> <<ItAcc>>]

\* {"date": "", "keywords": []}
PlaceholderKw == [kind |-> "dict", hasDate |-> TRUE, date |-> 0, fp |-> 0, keywords |-> <<>>]

\* what pending_keywords.txt can hold: a bare list, {"keywords": [...]},
\* or {"date": ..., "keywords": [...]}
KwPayloads ==
    [kind : {"list"}, hasDate : {FALSE}, date : {0}, fp : {0}, keywords : {<<ItB, ItAcc>>}]
    \cup [kind : {"dict"}, hasDate : {FALSE}, date : {0}, fp : {0}, keywords : {<<ItB, ItAcc>>}]
    \cup [kind : {"dict"}, hasDate : {TRUE}, date : {0}, fp : {0}, keywords : {<<>>, <<ItB, ItAcc>>}]
    \cup [kind : {"dict"}, hasDate : {TRUE}, date : Dates, fp : {0}, keywords : KwLists]

Entry(date, content, keywords) == [date |-> date, content |-> content, keywords |-> keywords]

MissingEntry == [kind |-> "missing", entry |-> Entry(0, 0, <<>>)]
EmptyEntry == [kind |-> "empty", entry |-> Entry(0, 0, <<>>)]
EntryFile(e) == [kind |-> "entry", entry |-> e]

NoStatus ==
    [dry_run |-> FALSE, date |-> 0, exists_before |-> FALSE, entry_index |-> 0,
     content_changed |-> FALSE, keywords_changed |-> FALSE,
     applied_keywords |-> FALSE, archivo_written |-> FALSE]

Outcome(op, apply, dry, ok, err, status) ==
    [op |-> op, apply |-> apply, dry |-> dry, ok |-> ok, err |-> err, status |-> status]

-----------------------------------------------------------------------------
(* The merge engine, qmp/merge_pending.py *)

load_archivo(raw) == raw.entries

\* next((e for e in entries if e.get("date") == date), None), as an index; 0 is None
FindDate(entries, date) ==
    IF \E i \in 1..Len(entries) : entries[i].date = date
    THEN CHOOSE i \in 1..Len(entries) :
            /\ entries[i].date = date
            /\ \A j \in 1..(i - 1) : entries[j].date # date
    ELSE 0

\* a bug: the entry is appended whether or not its date is there
upsert_append(entries, entry) ==
    [new_entries |-> Append(entries, entry), index |-> Len(entries), existed |-> FALSE]

\* a bug: the old entry is taken out and the new one put at the end
upsert_entry_moved(entries, entry) ==
    [new_entries |-> Append(SelectSeq(entries, LAMBDA e : e.date # entry.date), entry),
     index |-> Len(SelectSeq(entries, LAMBDA e : e.date # entry.date)),
     existed |-> FindDate(entries, entry.date) # 0]

upsert_entry(entries, entry) ==
    LET i == FindDate(entries, entry.date)
    IN  IF i # 0
        THEN [new_entries |-> [entries EXCEPT ![i] = entry], index |-> i - 1, existed |-> TRUE]
        ELSE [new_entries |-> Append(entries, entry), index |-> Len(entries), existed |-> FALSE]

without_keywords(e) == [date |-> e.date, content |-> e.content]

\* list.sort(key=date): stable, ascending
RECURSIVE InsertAsc(_, _)
InsertAsc(sorted, e) ==
    IF sorted = <<>> THEN <<e>>
    ELSE IF Head(sorted).date <= e.date THEN <<Head(sorted)>> \o InsertAsc(Tail(sorted), e)
    ELSE <<e>> \o sorted

RECURSIVE SortAsc(_)
SortAsc(s) ==
    IF s = <<>> THEN <<>> ELSE InsertAsc(SortAsc(SubSeq(s, 1, Len(s) - 1)), s[Len(s)])

\* list.sort(key=date, reverse=True): stable, descending
RECURSIVE InsertDesc(_, _)
InsertDesc(sorted, e) ==
    IF sorted = <<>> THEN <<e>>
    ELSE IF Head(sorted).date >= e.date THEN <<Head(sorted)>> \o InsertDesc(Tail(sorted), e)
    ELSE <<e>> \o sorted

RECURSIVE SortDesc(_)
SortDesc(s) ==
    IF s = <<>> THEN <<>> ELSE InsertDesc(SortDesc(SubSeq(s, 1, Len(s) - 1)), s[Len(s)])

\* build_entry_from_txt: what make_pending_entry.py leaves in pending_entry.json
BuiltEntry(date, content) == Entry(date, content, <<>>)

\* a bug: == for !=
DateMismatchInverted(payload, date) ==
    payload.kind = "dict" /\ payload.hasDate /\ payload.date # 0 /\ payload.date = date

\* the pending payload carries a date and it is another one than the entry's
DateMismatch(payload, date) ==
    payload.kind = "dict" /\ payload.hasDate /\ payload.date # 0 /\ payload.date # date

\* a bug: the preserved keywords are passed through the normalizer
MergeKeywordsNormalized(old, payload, apply) ==
    IF apply THEN normalize_keywords(payload)
    ELSE IF old # <<>> THEN normalize_keywords(AsPayload(old[1].keywords)) ELSE <<>>

\* the keywords the entry gets
MergeKeywords(old, payload, apply) ==
    IF apply THEN normalize_keywords(payload)
    ELSE IF old # <<>> THEN old[1].keywords ELSE <<>>

\* a bug: the gate tests the wrong side of old_entry
NewWithoutKeywordsInverted(old, kws) == old # <<>> /\ kws = <<>>

\* "new entry must not be published without keywords"
NewWithoutKeywords(old, kws) == old = <<>> /\ kws = <<>>

KeywordsChanged(old, entry) ==
    IF old = <<>> THEN TRUE ELSE ~keywords_equal(old[1].keywords, entry.keywords)

ContentChanged(old, entry) ==
    IF old = <<>> THEN TRUE ELSE without_keywords(old[1]) # without_keywords(entry)

\* the root that is written back
RebuildRoot(data_root, new_entries) == [data_root EXCEPT !.entries = new_entries]

\* main() from the change detection on, for the entry with its keywords set
MergeWrite(arch, entries, old, entry, apply, dry, sort) ==
    LET up == upsert_entry(entries, entry)
        new_entries == IF sort THEN SortAsc(up.new_entries) ELSE up.new_entries
    IN  [ok |-> TRUE, err |-> "",
         archivo |-> IF dry THEN arch ELSE RebuildRoot(arch, new_entries),
         pendingEntry |-> EntryFile(entry),
         status |-> [dry_run |-> dry, date |-> entry.date,
                     exists_before |-> old # <<>>,
                     entry_index |-> up.index,
                     content_changed |-> ContentChanged(old, entry),
                     keywords_changed |-> KeywordsChanged(old, entry),
                     applied_keywords |-> apply,
                     archivo_written |-> ~dry]]

\* main(): [ok, err, archivo, pendingEntry, status] for the text file (date, content)
MergeRun(arch, payload, date, content, apply, dry, sort) ==
    LET entries == load_archivo(arch)
        i == FindDate(entries, date)
        old == IF i = 0 THEN <<>> ELSE <<entries[i]>>
        fail(err) == [ok |-> FALSE, err |-> err, archivo |-> arch,
                      pendingEntry |-> EntryFile(BuiltEntry(date, content)),
                      status |-> NoStatus]
    IN  IF apply /\ payload.kind = "missing" THEN fail("no_pending_keywords")
        ELSE IF apply /\ DateMismatch(payload, date) THEN fail("date_mismatch")
        ELSE CHOOSE r \in
               {IF NewWithoutKeywords(old, kws) THEN fail("new_without_keywords")
                ELSE MergeWrite(arch, entries, old, Entry(date, content, kws), apply, dry, sort) :
                    kws \in {MergeKeywords(old, payload, apply)}} : TRUE

-----------------------------------------------------------------------------
(* apply_pending_entry_into_archivo, scripts/qcommon.py and scripts/qcrear.py *)

RECURSIVE OtherDates(_, _)
OtherDates(entries, date) ==
    IF entries = <<>> THEN <<>>
    ELSE (IF Head(entries).date # date THEN <<Head(entries)>> ELSE <<>>)
         \o OtherDates(Tail(entries), date)

ListRoot(entries) == [shape |-> "list", meta |-> 0, entries |-> entries]

\* the root apply_pending_entry_into_archivo writes
ApplyRoot(data, entries) == ListRoot(entries)

\* [ok, archivo]
apply_pending_entry_into_archivo(date_str, pending, arch) ==
    IF pending.kind = "missing" \/ pending.entry.date # date_str
    THEN [ok |-> FALSE, archivo |-> arch]
    ELSE [ok |-> TRUE,
          archivo |-> ApplyRoot(arch, SortDesc(Append(OtherDates(arch.entries, date_str),
                                                      pending.entry)))]

-----------------------------------------------------------------------------
(* The first merge script, scripts/merge_pending.py with scripts/make_pending_entry.py *)

MaxLegacyKeywords == 30

\* re.sub(r"\s+", " ", s)
RECURSIVE collapse_ws(_)
collapse_ws(s) ==
    IF s = <<>> THEN <<>>
    ELSE IF IsSpace(Head(s)) THEN <<" ">> \o collapse_ws(lstrip(s))
    ELSE <<Head(s)>> \o collapse_ws(Tail(s))

normalize_kw(s) == collapse_ws(strip_accents(lower(strip(s))))

\* weight = it.get("weight") or 1; 3 if weight >= 3 else (2 if weight == 2 else 1)
LegacyWeight(item) ==
    LET weight == IF item.hasWeight /\ item.weight # 0 THEN item.weight ELSE 1
    IN  IF weight >= 3 THEN 3 ELSE IF weight = 2 THEN 2 ELSE 1

RECURSIVE LegacySeen(_)
LegacySeen(kws) ==
    IF kws = <<>> THEN <<>>
    ELSE LET out == LegacySeen(SubSeq(kws, 1, Len(kws) - 1))
             it == kws[Len(kws)]
             word == normalize_kw(it.word)
         IN  IF word = <<>> \/ \E i \in 1..Len(out) : out[i].word = word
             THEN out
             ELSE Append(out, Item(word, LegacyWeight(it), TRUE))

parse_keywords_payload(payload) ==
    LET out == LegacySeen(payload.keywords)
    IN  SubSeq(out, 1, Min2(Len(out), MaxLegacyKeywords))

\* save_entries: sorted by date, newest first, always a list
save_entries(entries) == ListRoot(SortDesc(entries))

\* main(): [ok, err, archivo, pendingEntry, action]
LegacyMergeRun(arch, payload, pending, dry, new_only) ==
    LET entry == [pending.entry EXCEPT !.keywords = parse_keywords_payload(payload)]
        exists == \E i \in 1..Len(arch.entries) : arch.entries[i].date = entry.date
        fail(err, pe) == [ok |-> FALSE, err |-> err, archivo |-> arch, pendingEntry |-> pe]
    IN  IF pending.kind = "missing" THEN fail("no_pending_entry", pending)
        ELSE IF payload.kind = "missing" THEN fail("no_pending_keywords", pending)
        ELSE IF pending.entry.date = 0 THEN fail("no_date", pending)
        ELSE IF arch.shape # "list" THEN fail("archivo_not_list", EntryFile(entry))
        ELSE IF exists /\ new_only THEN fail("exists_new_only", EntryFile(entry))
        ELSE [ok |-> TRUE, err |-> "",
              archivo |-> IF dry THEN arch
                          ELSE save_entries(Append(OtherDates(arch.entries, entry.date), entry)),
              pendingEntry |-> EntryFile(entry)]

-----------------------------------------------------------------------------
(* Commands run by hand against the files *)

\* python qmp/merge_pending.py TXT --archivo .. --pending-kw .. --pending-entry ..
Merge(date, content, apply, dry, sort) ==
    /\ layout = "state"
    /\ \E r \in {MergeRun(archivo, pendingKw, date, content, apply, dry, sort)} :
           /\ archivo' = r.archivo
           /\ pendingEntry' = r.pendingEntry
           /\ last' = Outcome("merge", apply, dry, r.ok, r.err, r.status)
           /\ written' = IF r.ok /\ ~dry
                         THEN [written EXCEPT ![date] = r.pendingEntry]
                         ELSE written
    /\ UNCHANGED <<lookup, entry_txt, pull, layout, pendingKw, txt, run>>

\* apply_pending_entry_into_archivo(date_str, state/pending_entry.json, data/archivo.json)
ApplyPendingEntry(date_str) ==
    /\ layout = "state"
    /\ \E r \in {apply_pending_entry_into_archivo(date_str, pendingEntry, archivo)} :
           /\ archivo' = r.archivo
           /\ last' = Outcome("apply", FALSE, FALSE, r.ok,
                              IF r.ok THEN "" ELSE "bad_pending_entry",
                              [NoStatus EXCEPT !.date = date_str, !.archivo_written = r.ok])
           /\ written' = IF r.ok THEN [written EXCEPT ![date_str] = pendingEntry] ELSE written
    /\ UNCHANGED <<lookup, entry_txt, pull, layout, pendingKw, pendingEntry, txt, run>>

\* keywords are pasted or generated into pending_keywords.txt
WritePendingKw(payload) ==
    /\ pendingKw' = payload
    /\ last' = Outcome("write_kw", FALSE, FALSE, TRUE, "", NoStatus)
    /\ UNCHANGED <<lookup, entry_txt, pull, layout, archivo, pendingEntry, written, txt, run>>

\* python scripts/make_pending_entry.py TXT: load_archivo() raises on an archive
\* that is not a list, before anything is written
LegacyMakePendingEntry(date, content) ==
    /\ layout = "scripts"
    /\ archivo.shape = "list"
    /\ pendingEntry' = EntryFile(Entry(date, content, <<>>))
    /\ last' = Outcome("make_entry", FALSE, FALSE, TRUE, "", NoStatus)
    /\ UNCHANGED <<lookup, entry_txt, pull, layout, archivo, pendingKw, written, txt, run>>

\* python scripts/merge_pending.py [--dry-run] [--new-only]
LegacyMerge(dry, new_only) ==
    /\ layout = "scripts"
    /\ \E r \in {LegacyMergeRun(archivo, pendingKw, pendingEntry, dry, new_only)} :
           /\ archivo' = r.archivo
           /\ pendingEntry' = r.pendingEntry
           /\ last' = Outcome("legacy_merge", TRUE, dry, r.ok, r.err,
                              [NoStatus EXCEPT !.date = r.pendingEntry.entry.date,
                                               !.archivo_written = r.ok /\ ~dry])
           /\ written' = IF r.ok /\ ~dry
                         THEN [written EXCEPT ![r.pendingEntry.entry.date] = r.pendingEntry]
                         ELSE written
    /\ UNCHANGED <<lookup, entry_txt, pull, layout, pendingKw, txt, run>>

\* no text file under validation
\* no existence check asked yet
NoLookup == [json |-> [kind |-> "str", key |-> "", date |-> 0, items |-> <<>>], target |-> 0,
             qcrear |-> "none", qcambiar |-> "none"]

NoEntryTxt ==
    [date |-> 0, raw |-> [lines |-> <<>>, nl |-> FALSE],
     out |-> [op |-> "none", ok |-> TRUE, err |-> "ok", changed |-> FALSE]]

\* no sections pulled, nothing fingerprinted
NoPull == [docs |-> <<>>, file |-> <<>>, fp |-> "none", existing_fp |-> "none",
           rendered |-> <<>>]

\* a run that is over (or none yet)
IdleRun ==
    [prog |-> "none", pc |-> "done", target |-> 0, fp |-> 0, dry |-> FALSE, auto |-> FALSE,
     touched |-> FALSE, apply_kw |-> FALSE, txt_changed |-> FALSE,
     writes |-> 0, committed |-> FALSE, pushed |-> FALSE,
     outcome |-> "none", rc |-> 0, start |-> ListRoot(<<>>),
     tree |-> "clean", warned |-> "no", git_failed |-> "none", later |-> {}, commit |-> {},
     modified |-> {}, head_known |-> FALSE,
     head |-> [txt |-> 0, archivo |-> ListRoot(<<>>), pending_entry |-> MissingEntry,
               pending_kw |-> MissingKw]]

\* an entry published before this toolchain: its keywords kept in insertion order
HistoricEntry == Entry(1, 1, <<Item(<<"b">>, 1, TRUE), Item(<<"a">>, 1, TRUE)>>)

InitArchives ==
    {ListRoot(<<>>), ListRoot(<<HistoricEntry>>),
     [shape |-> "dict", meta |-> 1, entries |-> <<>>],
     [shape |-> "dict", meta |-> 1, entries |-> <<HistoricEntry>>]}

InitMerge ==
    /\ layout \in {"state", "scripts"}
    /\ archivo \in InitArchives
    /\ layout = "scripts" => archivo.shape = "list"
    /\ pendingKw \in {MissingKw, PlaceholderKw}
    /\ pendingEntry = MissingEntry
    /\ last = Outcome("none", FALSE, FALSE, TRUE, "", NoStatus)
    /\ written = [d \in Dates |-> MissingEntry]
    /\ txt = [d \in Dates |-> 0]
    /\ run = IdleRun
    /\ pull = NoPull
    /\ entry_txt = NoEntryTxt
    /\ lookup = NoLookup

NextMerge ==
    \/ \E d \in Dates, c \in Contents, apply \in BOOLEAN, dry \in BOOLEAN, sort \in BOOLEAN :
          Merge(d, c, apply, dry, sort)
    \/ \E d \in Dates : ApplyPendingEntry(d)
    \/ \E payload \in KwPayloads \cup {MissingKw} : WritePendingKw(payload)
    \/ \E d \in Dates, c \in Contents : LegacyMakePendingEntry(d, c)
    \/ \E dry \in BOOLEAN, new_only \in BOOLEAN : LegacyMerge(dry, new_only)

SpecMerge == InitMerge /\ [][NextMerge]_vars

-----------------------------------------------------------------------------
(* One call of qmp/merge_pending.py, on any archive and any pending record *)

\* the orders the dates of an archive can stand in: no date twice
DateOrders ==
    {o \in UNION {[1..n -> Dates] : n \in 0..MaxDate} :
        \A i, j \in 1..Len(o) : i # j => o[i] # o[j]}

\* the keyword lists of published entries: none, or a list in insertion order
EntryKwLists == {<<>>, HistoricEntry.keywords}

\* the entry lists an archive can hold
EntryLists ==
    UNION {{[i \in 1..Len(o) |-> Entry(o[i], c[i], k[i])] :
               c \in [1..Len(o) -> Contents], k \in [1..Len(o) -> EntryKwLists]} :
           o \in DateOrders}

\* archivo.json as a bare list, or as {"entries": [...], ...}
Archives ==
    {ListRoot(es) : es \in EntryLists}
    \cup {[shape |-> "dict", meta |-> 1, entries |-> es] : es \in EntryLists}

InitMergeOnce ==
    /\ layout = "state"
    /\ archivo \in Archives
    /\ pendingKw \in KwPayloads \cup {MissingKw}
    /\ pendingEntry = MissingEntry
    /\ last = Outcome("none", FALSE, FALSE, TRUE, "", NoStatus)
    /\ written = [d \in Dates |-> MissingEntry]
    /\ txt = [d \in Dates |-> 0]
    /\ run = IdleRun
    /\ pull = NoPull
    /\ entry_txt = NoEntryTxt
    /\ lookup = NoLookup

NextMergeOnce ==
    \E d \in Dates, c \in Contents, apply \in BOOLEAN, dry \in BOOLEAN, sort \in BOOLEAN :
        last.op = "none" /\ Merge(d, c, apply, dry, sort)

SpecMergeOnce == InitMergeOnce /\ [][NextMergeOnce]_vars

-----------------------------------------------------------------------------
(* scripts/qcrear.py: one run, from prompt to prompt *)

\* the files and the run, as one value the code segments transform
World ==
    [archivo |-> archivo, pendingKw |-> pendingKw, pendingEntry |-> pendingEntry,
     txt |-> txt, last |-> last, written |-> written, run |-> run]

Becomes(w) ==
    /\ archivo' = w.archivo
    /\ pendingKw' = w.pendingKw
    /\ pendingEntry' = w.pendingEntry
    /\ txt' = w.txt
    /\ last' = w.last
    /\ written' = w.written
    /\ run' = w.run
    /\ UNCHANGED <<lookup, entry_txt, pull, layout>>

\* how git add, commit and push end
GitOutcomes == {"ok", "add_fails", "commit_fails", "push_fails"}

\* the working tree outside the files of the publish: clean, changed, or
\* changed and staged
Trees == {"clean", "unstaged", "staged"}

\* git rev-parse --abbrev-ref HEAD: the branch, or a non-zero exit
Branches == {"main", "dev", "fails"}

\* a prompt that asks whether or not --auto was given
prompt_yn_asks(auto, default_yes) == {"y", "n", "salir"}

\* what the user types at a prompt; --auto takes the default without asking
prompt_yn(auto, default_yes) ==
    IF auto THEN {IF default_yes THEN "y" ELSE "n"} ELSE {"y", "n", "salir"}

\* the four files of a publish, as they are in the working tree
Files(w) ==
    [txt |-> w.txt[w.run.target], archivo |-> w.archivo, pending_entry |-> w.pendingEntry,
     pending_kw |-> w.pendingKw]

\* return N: what git status would list of the four files is kept, the content
\* of HEAD is of no use from here on
Finish(w, outcome, rc) ==
    [w EXCEPT !.run.pc = "done", !.run.outcome = outcome, !.run.rc = rc,
              !.run.modified = IF w.run.head_known
                               THEN {f \in DOMAIN w.run.head : Files(w)[f] # w.run.head[f]}
                               ELSE {},
              !.run.head = IdleRun.head]

\* except UserAbort: return 0
UserAbort(w) == Finish(w, "aborted", 0)

\* except Exception: return 1
Fatal(w) == Finish(w, "error", 1)

\* where the four files are known to be as committed when the run starts, the
\* content of HEAD is followed: what the run changes from here on is its own
\* modification.  Files left by earlier runs can differ from HEAD in any way
AtStart(w) ==
    [w EXCEPT !.run.head_known = run.head_known,
              !.run.head = IF run.head_known THEN Files(w) ELSE @]

\* a step of the publish was carried out; kept when a git command had failed before
Did(w, step) == [w EXCEPT !.run.later = IF w.run.git_failed = "none" THEN @ ELSE @ \cup {step}]

\* git(cmd) with a non-zero exit: raise RuntimeError
GitFails(w, cmd) == Fatal([w EXCEPT !.run.git_failed = IF @ = "none" THEN cmd ELSE @])

\* git add PATHS; git commit -m MSG; git push.  The commit takes the index: the
\* paths given that changed and whatever else was staged before the run; with
\* an empty index git commit exits with 1 (where HEAD is not followed, that is
\* one of the ways the commit can fail)
GitPublish(w, paths, git, tree) ==
    LET staged == IF w.run.head_known
                  THEN {f \in paths : Files(w)[f] # w.run.head[f]}
                  ELSE paths
        files == staged \cup (IF tree = "staged" THEN {"other"} ELSE {})
        added == Did(w, "add")
        c == Did([added EXCEPT !.run.committed = TRUE, !.run.commit = files,
                               !.run.head = [f \in DOMAIN @ |->
                                               IF f \in staged THEN Files(w)[f] ELSE @[f]]],
                 "commit")
    IN  IF git = "add_fails" THEN GitFails(w, "add")
        ELSE IF git = "commit_fails" \/ files = {} THEN GitFails(added, "commit")
        ELSE IF git = "push_fails" THEN GitFails(c, "push")
        ELSE Did([c EXCEPT !.run.pushed = TRUE], "push")

\* a JSON value of archivo.json: an object (kind "dict"; date is the value of
\* its "date" key, 0 when it has none), an array (kind "list") or a scalar (kind
\* "str"); key is the key the value sits under in its parent object, items are
\* the values of an object or the items of an array
Json(kind, key, date, items) == [kind |-> kind, key |-> key, date |-> date, items |-> items]

Scalar(key) == Json("str", key, 0, <<>>)

\* the JSON value of an archive of the model: a list of entries, or
\* {"entries": [...], ...}
AsJson(arch) ==
    LET es == [i \in 1..Len(arch.entries) |-> Json("dict", "", arch.entries[i].date, <<>>)]
    IN  IF arch.shape = "dict"
        THEN Json("dict", "", 0, <<Json("list", "entries", 0, es), Scalar("other")>>)
        ELSE Json("list", "", 0, es)

\* walk(obj) of date_exists_in_archivo: an object with {"date": target}
\* anywhere in the value
RECURSIVE walk(_, _)
walk(obj, target) ==
    IF obj.kind = "dict"
    THEN obj.date = target \/ \E i \in 1..Len(obj.items) : walk(obj.items[i], target)
    ELSE IF obj.kind = "list"
    THEN \E i \in 1..Len(obj.items) : walk(obj.items[i], target)
    ELSE FALSE

date_exists_in_archivo(arch, target) == walk(AsJson(arch), target)

\* entries_list_from_archivo: the list of the root or of its "entries" key, the
\* dicts of it only; [ok, entries], ok FALSE when it raises RuntimeError
entries_list_from_archivo(json) ==
    LET under == {i \in 1..Len(json.items) :
                     json.items[i].key = "entries" /\ json.items[i].kind = "list"}
        dicts(items) == SelectSeq(items, LAMBDA e : e.kind = "dict")
    IN  IF json.kind = "dict" /\ under # {}
        THEN [ok |-> TRUE, entries |-> dicts(json.items[CHOOSE i \in under : TRUE].items)]
        ELSE IF json.kind = "list" THEN [ok |-> TRUE, entries |-> dicts(json.items)]
        ELSE [ok |-> FALSE, entries |-> <<>>]

\* find_entry_by_date: [raises, found]
find_entry_by_date(json, target) ==
    LET l == entries_list_from_archivo(json)
    IN  [raises |-> ~l.ok,
         found |-> \E i \in 1..Len(l.entries) : l.entries[i].date = target]

\* a keyword item as qcrear wants it: word, weight in 1..3
ValidKwItem(kw) ==
    /\ kw.hasWeight
    /\ strip(kw.word) # <<>>
    /\ kw.weight \in {1, 2, 3}

\* load_pending_keywords without the validation of the items
load_pending_keywords_unvalidated(payload) ==
    IF payload.kind = "missing" THEN "none"
    ELSE IF payload.kind # "dict" THEN "error"
    ELSE IF (~payload.hasDate \/ payload.date = 0) /\ payload.keywords = <<>> THEN "none"
    ELSE IF ~payload.hasDate THEN "error"
    ELSE IF payload.date = 0 THEN "error"
    ELSE "ok"

\* "none": no pending; "error": RuntimeError; "ok": the object
load_pending_keywords(payload) ==
    IF payload.kind = "missing" THEN "none"
    ELSE IF payload.kind # "dict" THEN "error"
    ELSE IF (~payload.hasDate \/ payload.date = 0) /\ payload.keywords = <<>> THEN "none"
    ELSE IF ~payload.hasDate THEN "error"
    ELSE IF payload.date = 0 THEN "error"
    ELSE IF payload.keywords = <<>> THEN "ok"
    ELSE IF \E i \in 1..Len(payload.keywords) : ~ValidKwItem(payload.keywords[i]) THEN "error"
    ELSE "ok"

write_pending_keywords(target, keywords, docs_fp) ==
    [kind |-> "dict", hasDate |-> TRUE, date |-> target, fp |-> docs_fp, keywords |-> keywords]

\* what qmp/gen_keywords.py gives for a text
GenKeywords == <<Item(<<"b">>, 1, TRUE), Item(<<"á">>, 3, TRUE)>>

\* the pending record is there, for this date, this pull, and holds keywords
PendingVigente(w) ==
    /\ load_pending_keywords(w.pendingKw) = "ok"
    /\ w.pendingKw.date = w.run.target
    /\ w.pendingKw.fp = w.run.fp
    /\ w.pendingKw.keywords # <<>>

\* "Keywords": up to the first prompt of the section
KeywordsSection(w) ==
    IF load_pending_keywords(w.pendingKw) = "error" THEN Fatal(w)
    ELSE IF PendingVigente(w) THEN [w EXCEPT !.run.pc = "use_existing"]
    ELSE [w EXCEPT !.run.pc = "gen_now"]

\* write_txt_atomic(txt_path, render_txt(...))
WriteTxt(w) == [w EXCEPT !.txt[w.run.target] = w.run.fp]

\* "Decidir si hay que generar/reescribir txt": up to its first prompt
TxtSection(w) ==
    IF w.txt[w.run.target] = w.run.fp THEN KeywordsSection(w)
    ELSE [w EXCEPT !.run.pc = "confirm_docs"]

\* steps 2 to 5 of the publish gate, up to the final prompt
PublishGate(w) ==
    IF \/ load_pending_keywords(w.pendingKw) # "ok"
       \/ w.pendingKw.date # w.run.target
       \/ w.pendingKw.keywords = <<>>
       \/ w.pendingKw.fp # w.run.fp
    THEN Fatal(w)
    ELSE CHOOSE x \in
           {IF ~r.ok
            THEN Fatal([w EXCEPT !.pendingEntry = r.pendingEntry,
                                 !.last = Outcome("merge", TRUE, FALSE, FALSE, r.err, r.status)])
            ELSE CHOOSE y \in
                   {IF r.status.exists_before /\ ~r.status.content_changed
                          /\ ~r.status.keywords_changed
                    THEN Finish(m, "noop", 0)
                    ELSE IF w.run.dry THEN Finish(m, "dry_run", 0)
                    ELSE [m EXCEPT !.run.pc = "confirm_publish"] :
                        m \in {[w EXCEPT !.archivo = r.archivo,
                                         !.pendingEntry = r.pendingEntry,
                                         !.last = Outcome("merge", TRUE, FALSE, TRUE, "", r.status),
                                         !.written[w.run.target] = r.pendingEntry,
                                         !.run.writes = @ + 1]}} : TRUE :
               r \in {MergeRun(w.archivo, w.pendingKw, w.run.target,
                               w.txt[w.run.target], TRUE, FALSE, FALSE)}} : TRUE

\* "Publish gate": the branch check, then the gate
PublishSection(w, branch) ==
    IF branch = "fails" THEN GitFails(w, "rev-parse")
    ELSE IF branch # "main" THEN [w EXCEPT !.run.pc = "branch"]
    ELSE PublishGate(w)

\* steps 6 to 8: apply, git add/commit/push, cleanup
PublishSteps(w, git, tree) ==
    LET a == apply_pending_entry_into_archivo(w.run.target, w.pendingEntry, w.archivo)
        applied == [w EXCEPT !.archivo = a.archivo,
                             !.written[w.run.target] = w.pendingEntry,
                             !.last = Outcome("apply", FALSE, FALSE, TRUE, "",
                                              [NoStatus EXCEPT !.date = w.run.target,
                                                               !.archivo_written = TRUE]),
                             !.run.writes = @ + 1,
                             !.run.tree = tree]
        g == GitPublish(applied, {"archivo", "txt", "pending_entry"}, git, tree)
    IN  IF ~a.ok THEN Fatal(w)
        ELSE IF ~g.run.pushed THEN g
        ELSE Finish([g EXCEPT !.pendingKw = PlaceholderKw, !.pendingEntry = EmptyEntry],
                    "published", 0)

\* qcrear [DATE] [--dry-run] [--auto]: preflight, existence check, pull
QcrearStart(target, dry, auto, docs) ==
    /\ layout = "state"
    /\ run.pc = "done"
    /\ \E w \in {AtStart([World EXCEPT !.run = [IdleRun EXCEPT !.prog = "qcrear",
                                                      !.pc = "start", !.target = target,
                                                      !.dry = dry, !.auto = auto,
                                                      !.start = archivo]])} :
          Becomes(IF date_exists_in_archivo(archivo, target) THEN Finish(w, "exists", 0)
                  ELSE IF docs = 0 THEN Fatal(w)
                  ELSE [w EXCEPT !.run.fp = docs, !.run.pc = "preview"])

\* "¿Ver preview de los 3 escritos?"
Preview(ans) ==
    /\ run.pc = "preview"
    /\ ans \in prompt_yn(run.auto, FALSE)
    /\ Becomes(IF ans = "salir" THEN UserAbort(World) ELSE TxtSection(World))

\* "¿Confirmas que esto se ve correcto?"
ConfirmDocs(ans) ==
    /\ run.pc = "confirm_docs"
    /\ ans \in prompt_yn(run.auto, FALSE)
    /\ Becomes(IF ans # "y" THEN UserAbort(World)
               ELSE IF txt[run.target] # 0 THEN [World EXCEPT !.run.pc = "overwrite"]
               ELSE KeywordsSection(WriteTxt(World)))

\* "El archivo existe pero NO coincide con Google Docs. ¿Regenerarlo (sobrescribir)?"
Overwrite(ans) ==
    /\ run.pc = "overwrite"
    /\ ans \in prompt_yn(run.auto, FALSE)
    /\ Becomes(IF ans = "salir" THEN UserAbort(World)
               ELSE IF ans = "y" THEN KeywordsSection(WriteTxt(World))
               ELSE KeywordsSection(World))

\* "¿Usar estas keywords?"
UseExisting(ans, branch) ==
    /\ run.pc = "use_existing"
    /\ ans \in prompt_yn(run.auto, TRUE)
    /\ Becomes(IF ans = "salir" THEN UserAbort(World)
               ELSE IF ans = "n" THEN [World EXCEPT !.run.pc = "gen_now"]
               ELSE PublishSection(
                        [World EXCEPT !.pendingKw =
                            write_pending_keywords(run.target, pendingKw.keywords, run.fp)],
                        branch))

\* "No hay keywords vigentes. ¿Generar keywords ahora?"
GenNow(ans, generated) ==
    /\ run.pc = "gen_now"
    /\ ans \in prompt_yn(run.auto, TRUE)
    /\ Becomes(IF ans = "salir" THEN UserAbort(World)
               ELSE IF ans = "n" THEN Finish(World, "no_keywords", 0)
               ELSE IF ~generated THEN Fatal(World)
               ELSE [World EXCEPT !.run.pc = "confirm_kw"])

\* "¿Confirmas estas keywords?"
ConfirmKw(ans) ==
    /\ run.pc = "confirm_kw"
    /\ ans \in prompt_yn(run.auto, TRUE)
    /\ \E w \in {[World EXCEPT !.pendingKw =
                      write_pending_keywords(run.target, GenKeywords, run.fp)]} :
          Becomes(IF ans # "y" THEN UserAbort(World)
                  ELSE IF run.dry THEN Finish(w, "dry_run", 0)
                  ELSE [w EXCEPT !.run.pc = "publish_now"])

\* "Todo listo. ¿Publicar ahora (archivo.json + commit + push)?"
PublishNow(ans, branch) ==
    /\ run.pc = "publish_now"
    /\ ans \in prompt_yn(run.auto, TRUE)
    /\ Becomes(IF ans = "salir" THEN UserAbort(World)
               ELSE IF ans = "n" THEN Finish(World, "declined", 0)
               ELSE PublishSection(World, branch))

\* "¿Publicar de todos modos en 'BRANCH'?"
Branch(ans) ==
    /\ run.pc = "branch"
    /\ ans \in prompt_yn(run.auto, FALSE)
    /\ Becomes(IF ans = "salir" THEN UserAbort(World)
               ELSE IF ans = "n" THEN Finish(World, "declined", 0)
               ELSE PublishGate(World))

\* "¿Confirmar publish (commit + push)?"
ConfirmPublish(ans, git, tree) ==
    /\ run.pc = "confirm_publish"
    /\ ans \in prompt_yn(run.auto, TRUE)
    /\ Becomes(IF ans = "salir" THEN UserAbort(World)
               ELSE IF ans = "n" THEN Finish(World, "declined", 0)
               ELSE PublishSteps(World, git, tree))

\* keywords pasted by hand as a bare list, as the first merge script took them
PastedKw == [kind |-> "list", hasDate |-> FALSE, date |-> 0, fp |-> 0, keywords |-> <<ItB, ItAcc>>]

InitQcrear ==
    /\ layout = "state"
    /\ archivo \in InitArchives
    /\ pendingKw \in {MissingKw, PlaceholderKw, PastedKw}
    /\ pendingEntry = MissingEntry
    /\ last = Outcome("none", FALSE, FALSE, TRUE, "", NoStatus)
    /\ written = [d \in Dates |-> MissingEntry]
    /\ txt = [d \in Dates |-> 0]
    /\ run = IdleRun
    /\ pull = NoPull
    /\ entry_txt = NoEntryTxt
    /\ lookup = NoLookup

NextQcrear ==
    \/ \E target \in Dates, dry \in BOOLEAN, auto \in BOOLEAN, docs \in 0..MaxContent :
          QcrearStart(target, dry, auto, docs)
    \/ \E ans \in {"y", "n", "salir"} : Preview(ans)
    \/ \E ans \in {"y", "n", "salir"} : ConfirmDocs(ans)
    \/ \E ans \in {"y", "n", "salir"} : Overwrite(ans)
    \/ \E ans \in {"y", "n", "salir"}, branch \in Branches : UseExisting(ans, branch)
    \/ \E ans \in {"y", "n", "salir"}, generated \in BOOLEAN : GenNow(ans, generated)
    \/ \E ans \in {"y", "n", "salir"} : ConfirmKw(ans)
    \/ \E ans \in {"y", "n", "salir"}, branch \in Branches : PublishNow(ans, branch)
    \/ \E ans \in {"y", "n", "salir"} : Branch(ans)
    \/ \E ans \in {"y", "n", "salir"}, git \in GitOutcomes, tree \in Trees :
          ConfirmPublish(ans, git, tree)

SpecQcrear == InitQcrear /\ [][NextQcrear]_vars

(* scripts/qcambiar.py: one run, from prompt to prompt *)

\* qcommon.prompt_yn has no --auto: the user answers, or types an exit token
Answers == {"y", "n", "salir"}

\* qcambiar's load_pending_keywords: "none", "error" (not an object), or "ok"
qcambiar_load_pending_keywords(payload) ==
    IF payload.kind = "missing" THEN "none"
    ELSE IF payload.kind # "dict" THEN "error"
    ELSE IF (~payload.hasDate \/ payload.date = 0) /\ payload.keywords = <<>> THEN "none"
    ELSE "ok"

\* apply_kw = bool(pending and pending.get("date") == target and pending.get("keywords"))
qcambiar_apply_kw(payload, target) ==
    /\ qcambiar_load_pending_keywords(payload) = "ok"
    /\ payload.hasDate /\ payload.date = target
    /\ payload.keywords # <<>>

\* show_keywords_top prints it['keyword'] of the first item; the items that
\* normalize_keywords_payload returns are {"word", "weight"}: KeyError
show_keywords_top_raises(kw_list) == kw_list # <<>>

\* qcambiar DATE: preflight, the published entry must exist
QcambiarStart(target) ==
    /\ layout = "state"
    /\ run.pc = "done"
    /\ \E w \in {AtStart([World EXCEPT !.run = [IdleRun EXCEPT !.prog = "qcambiar",
                                                              !.pc = "start",
                                                              !.target = target,
                                                              !.start = archivo]])} :
          Becomes(IF ~find_entry_by_date(AsJson(archivo), target).found
                  THEN Finish(w, "missing", 0)
                  ELSE [w EXCEPT !.run.pc = "qc_menu"])

\* the menu: change poem? change text? change keywords?  Then the pull of what
\* was selected (docs = 0: a section came back empty)
QcMenu(change_poem, change_text, change_kw, docs) ==
    /\ run.pc = "qc_menu"
    /\ Becomes(IF "salir" \in {change_poem, change_text, change_kw} THEN UserAbort(World)
               ELSE IF {change_poem, change_text, change_kw} = {"n"}
                    THEN Finish(World, "nothing", 0)
               ELSE IF "y" \in {change_poem, change_text}
                    THEN IF docs = 0 THEN Fatal(World)
                         ELSE [World EXCEPT !.run.touched = TRUE, !.run.fp = docs,
                                            !.run.pc = "qc_confirm_docs"]
               ELSE IF txt[run.target] = 0 THEN Fatal(World)
               ELSE [World EXCEPT !.run.pc = "qc_kw_only"])

\* "¿Ver preview de los 3 escritos?", "¿Confirmas que el contenido se ve correcto?",
\* then the text file is regenerated
QcConfirmDocs(preview, ok) ==
    /\ run.pc = "qc_confirm_docs"
    /\ Becomes(IF "salir" \in {preview, ok} THEN UserAbort(World)
               ELSE IF ok = "n" THEN Finish(World, "declined", 0)
               ELSE [WriteTxt(World) EXCEPT !.run.pc = "qc_kw_text"])

\* keywords after a change of text: mode r (regenerate), e (edit), n (keep).
\* r and e end in show_keywords_top, or in a failure of the generator or of
\* normalize_keywords_payload before it
QcKeywordsText(mode, cont, save) ==
    /\ run.pc = "qc_kw_text"
    /\ Becomes(IF mode = "salir" THEN UserAbort(World)
               ELSE IF mode = "n"
                    THEN IF cont = "salir" THEN UserAbort(World)
                         ELSE IF cont = "n" THEN Finish(World, "declined", 0)
                         ELSE [World EXCEPT !.run.pc = "qc_publish_now"]
               ELSE IF show_keywords_top_raises(GenKeywords) THEN Fatal(World)
               ELSE IF save = "salir" THEN UserAbort(World)
               ELSE IF save = "y"
                    THEN [World EXCEPT !.pendingKw =
                                           write_pending_keywords(run.target, GenKeywords, run.fp),
                                       !.run.pc = "qc_publish_now"]
               ELSE IF cont = "salir" THEN UserAbort(World)
               ELSE IF cont = "y" THEN Finish(World, "declined", 0)
               ELSE [World EXCEPT !.run.pc = "qc_publish_now"])

\* keywords only: n cancels, r and e as above
QcKeywordsOnly(mode, save) ==
    /\ run.pc = "qc_kw_only"
    /\ Becomes(IF mode = "salir" THEN UserAbort(World)
               ELSE IF mode = "n" THEN Finish(World, "declined", 0)
               ELSE IF show_keywords_top_raises(GenKeywords) THEN Fatal(World)
               ELSE IF save = "salir" THEN UserAbort(World)
               ELSE IF save = "y"
                    THEN [World EXCEPT !.pendingKw =
                                           write_pending_keywords(run.target, GenKeywords,
                                                                  txt[run.target]),
                                       !.run.pc = "qc_publish_now"]
               ELSE Finish(World, "declined", 0))

\* validate the text, merge (keywords applied if a pending record for the date
\* holds some), no-op guard, up to the final prompt
QcGate(w) ==
    IF w.txt[w.run.target] = 0 THEN Fatal(w)
    ELSE IF qcambiar_load_pending_keywords(w.pendingKw) = "error" THEN Fatal(w)
    ELSE CHOOSE x \in
           {IF ~r.ok
            THEN Fatal([w EXCEPT !.pendingEntry = r.pendingEntry,
                                 !.run.apply_kw = a,
                                 !.last = Outcome("merge", a, FALSE, FALSE, r.err, r.status)])
            ELSE CHOOSE y \in
                   {IF r.status.exists_before /\ ~r.status.content_changed
                          /\ ~r.status.keywords_changed
                    THEN Finish(m, "noop", 0)
                    ELSE [m EXCEPT !.run.pc = "qc_confirm_publish"] :
                        m \in {[w EXCEPT !.archivo = r.archivo,
                                         !.pendingEntry = r.pendingEntry,
                                         !.last = Outcome("merge", a, FALSE, TRUE, "", r.status),
                                         !.written[w.run.target] = r.pendingEntry,
                                         !.run.apply_kw = a,
                                         !.run.writes = @ + 1]}} : TRUE :
               a \in {qcambiar_apply_kw(w.pendingKw, w.run.target)},
               r \in {MergeRun(w.archivo, w.pendingKw, w.run.target, w.txt[w.run.target],
                               qcambiar_apply_kw(w.pendingKw, w.run.target), FALSE, FALSE)}} : TRUE

\* "¿Hacer commit + push ahora?", then the branch check
QcPublishNow(ans, branch) ==
    /\ run.pc = "qc_publish_now"
    /\ Becomes(IF ans = "salir" THEN UserAbort(World)
               ELSE IF ans = "n" THEN Finish(World, "declined", 0)
               ELSE IF branch = "fails" THEN GitFails(World, "rev-parse")
               ELSE IF branch # "main" THEN [World EXCEPT !.run.pc = "qc_branch"]
               ELSE QcGate(World))

\* "¿Publicar de todos modos en 'BRANCH'?"
QcBranch(ans) ==
    /\ run.pc = "qc_branch"
    /\ Becomes(IF ans = "salir" THEN UserAbort(World)
               ELSE IF ans = "n" THEN Finish(World, "declined", 0)
               ELSE QcGate(World))

\* "¿Confirmar publish (commit + push)?", then apply, git add/commit/push and
\* the cleanup of both pending files, the same steps as qcrear's
QcConfirmPublish(ans, git, tree) ==
    /\ run.pc = "qc_confirm_publish"
    /\ Becomes(IF ans = "salir" THEN UserAbort(World)
               ELSE IF ans = "n" THEN Finish(World, "declined", 0)
               ELSE PublishSteps(World, git, tree))

-----------------------------------------------------------------------------
(* scripts/2qcambiar.py: one run, from prompt to prompt *)

\* 2qcambiar's load_pending_keywords: None for anything that is not an object
\* with "date" and "keywords", and for the placeholder
q2_load_pending_keywords(payload) ==
    IF payload.kind # "dict" THEN "none"
    ELSE IF ~payload.hasDate THEN "none"
    ELSE IF payload.date = 0 /\ payload.keywords = <<>> THEN "none"
    ELSE "ok"

pending_keywords_for_date(payload, date_str) ==
    q2_load_pending_keywords(payload) = "ok" /\ payload.date = date_str

\* reset_pending_files(): the placeholder in both files
reset_pending_files(w) == [w EXCEPT !.pendingKw = PlaceholderKw, !.pendingEntry = EmptyEntry]

\* 2qcambiar DATE: the published entry must exist; pull of both documents
\* (docs = 0: the pull failed) and comparison with the published text
Q2Start(date_str, docs) ==
    /\ layout = "state"
    /\ run.pc = "done"
    /\ \E w \in {AtStart([World EXCEPT !.run = [IdleRun EXCEPT !.prog = "2qcambiar",
                                                              !.pc = "start",
                                                              !.target = date_str,
                                                              !.start = archivo]])} :
          Becomes(IF ~find_entry_by_date(AsJson(archivo), date_str).found
                  THEN Finish(w, "missing", 1)
                  ELSE IF docs = 0 THEN Fatal(w)
                  ELSE [w EXCEPT !.run.fp = docs, !.run.pc = "q2_text"])

\* "¿Ver preview del .txt publicado?"; if the documents differ from the text:
\* "¿Aplicar estos cambios al .txt publicado?", "¿Ver preview del contenido
\* FINAL a escribir?", "¿Confirmas que el contenido se ve correcto?"
Q2Text(preview, apply, confirm) ==
    /\ run.pc = "q2_text"
    /\ Becomes(IF preview = "salir" THEN UserAbort(World)
               ELSE IF run.fp = txt[run.target] THEN [World EXCEPT !.run.pc = "q2_kw"]
               ELSE IF apply = "salir" THEN UserAbort(World)
               ELSE IF apply = "n" THEN [World EXCEPT !.run.pc = "q2_kw"]
               ELSE IF confirm = "salir" THEN UserAbort(World)
               ELSE IF confirm = "n" THEN Finish(World, "declined", 0)
               ELSE [WriteTxt(World) EXCEPT !.run.txt_changed = TRUE, !.run.pc = "q2_kw"])

\* "¿Ver keywords?", and for a pending record of this date "Detecté keywords
\* pendientes para esta fecha. ¿Publicarlas en este publish?"
Q2ApplyKw(view, apply) ==
    /\ run.pc = "q2_kw"
    /\ Becomes(IF view = "salir" THEN UserAbort(World)
               ELSE IF ~pending_keywords_for_date(pendingKw, run.target)
                    THEN [World EXCEPT !.run.pc = "q2_regen"]
               ELSE IF apply = "salir" THEN UserAbort(World)
               ELSE [World EXCEPT !.run.apply_kw = (apply = "y"), !.run.pc = "q2_regen"])

\* after the keywords flow: nothing to publish, or on to the publish prompts
Q2Summary(w) ==
    IF ~w.run.txt_changed /\ ~w.run.apply_kw THEN Finish(w, "nothing", 0)
    ELSE [w EXCEPT !.run.pc = "q2_publish_now"]

\* generate_keywords_from_txt + write_pending_keywords with the text's fingerprint
Q2Regenerate(w, generated) ==
    IF ~generated \/ w.txt[w.run.target] = 0 THEN Fatal(w)
    ELSE Q2Summary([w EXCEPT !.pendingKw = write_pending_keywords(w.run.target, GenKeywords,
                                                                  w.txt[w.run.target]),
                             !.run.apply_kw = TRUE])

\* "¿Quieres regenerar keywords?", "Ya hay pending_keywords.txt con contenido.
\* ¿Reemplazarlo?", "¿Ver keywords nuevas?"
Q2Regen(regen, replace, generated, view_new) ==
    /\ run.pc = "q2_regen"
    /\ Becomes(IF regen = "salir" THEN UserAbort(World)
               ELSE IF regen = "n" THEN Q2Summary(World)
               ELSE IF q2_load_pending_keywords(pendingKw) = "ok" /\ replace = "salir"
                    THEN UserAbort(World)
               ELSE IF q2_load_pending_keywords(pendingKw) = "ok" /\ replace = "n"
                    THEN Q2Summary(World)
               ELSE IF generated /\ txt[run.target] # 0 /\ view_new = "salir"
                    THEN UserAbort([World EXCEPT
                             !.pendingKw = write_pending_keywords(run.target, GenKeywords,
                                                                  txt[run.target])])
               ELSE Q2Regenerate(World, generated))

\* "¿Hacer commit + push ahora?", then the branch check
Q2PublishNow(ans, branch) ==
    /\ run.pc = "q2_publish_now"
    /\ Becomes(IF ans = "salir" THEN UserAbort(World)
               ELSE IF ans = "n" THEN Finish(World, "declined", 0)
               ELSE IF branch = "fails" THEN GitFails(World, "rev-parse")
               ELSE IF branch # "main" THEN [World EXCEPT !.run.pc = "q2_branch"]
               ELSE [World EXCEPT !.run.pc = "q2_confirm"])

\* "¿Continuar de todos modos?"
Q2Branch(ans) ==
    /\ run.pc = "q2_branch"
    /\ Becomes(IF ans = "salir" THEN UserAbort(World)
               ELSE IF ans = "n" THEN Finish(World, "declined", 0)
               ELSE [World EXCEPT !.run.pc = "q2_confirm"])

\* merge (--apply-keywords if K_changed), reset of the pending files, then
\* git add, commit and push
Q2Publish(w, git, tree) ==
    IF w.txt[w.run.target] = 0 THEN Fatal(w)
    ELSE CHOOSE x \in
           {IF ~r.ok
            THEN Fatal([w EXCEPT !.pendingEntry = r.pendingEntry,
                                 !.last = Outcome("merge", w.run.apply_kw, FALSE, FALSE,
                                                  r.err, r.status)])
            ELSE CHOOSE y \in
                   {IF ~g.run.pushed THEN g ELSE Finish(g, "published", 0) :
                        g \in {GitPublish(
                                 Did(Did(reset_pending_files(
                                           [w EXCEPT !.archivo = r.archivo,
                                                     !.last = Outcome("merge", w.run.apply_kw,
                                                                      FALSE, TRUE, "", r.status),
                                                     !.written[w.run.target] = r.pendingEntry,
                                                     !.run.writes = @ + 1]),
                                         "merge"), "reset"),
                                 {"txt", "archivo", "pending_entry", "pending_kw"},
                                 git, tree)}} : TRUE :
               r \in {MergeRun(w.archivo, w.pendingKw, w.run.target, w.txt[w.run.target],
                               w.run.apply_kw, FALSE, FALSE)}} : TRUE

\* "¿Confirmar publish (commit + push)?", then warn_or_block_dirty_repo, which
\* asks when git status lists a path outside the publish: "¿Continuar y
\* publicar solo los archivos del publish?".  git_status_porcelain does not
\* read the exit code of git status: when it fails there are no lines
Q2Confirm(ans, dirty, git, tree, status) ==
    /\ run.pc = "q2_confirm"
    /\ \E w \in {[World EXCEPT !.run.tree = tree,
                                !.run.git_failed = IF status = "fails" THEN "status" ELSE @]} :
          Becomes(IF ans = "salir" THEN UserAbort(World)
                  ELSE IF ans = "n" THEN Finish(World, "declined", 0)
                  ELSE IF status = "fails" THEN Q2Publish(w, git, tree)
                  ELSE IF tree = "clean" THEN Q2Publish(w, git, tree)
                  ELSE IF dirty = "salir" THEN UserAbort([w EXCEPT !.run.warned = dirty])
                  ELSE IF dirty = "n"
                       THEN Finish([w EXCEPT !.run.warned = dirty], "declined", 1)
                  ELSE Q2Publish([w EXCEPT !.run.warned = dirty], git, tree))

-----------------------------------------------------------------------------
(* One run of an orchestrator, on the files as earlier runs left them *)

\* an entry published by qcrear: its keywords went through normalize_keywords
PublishedEntry == Entry(1, 1, normalize_keywords(AsPayload(GenKeywords)))

RunArchives ==
    InitArchives
    \cup {ListRoot(<<PublishedEntry>>),
          [shape |-> "dict", meta |-> 1, entries |-> <<PublishedEntry>>]}

\* pending_keywords.txt: absent, reset, pasted by hand, or left by a run that
\* wrote keywords and did not publish
RunPendingKw ==
    {MissingKw, PlaceholderKw, PastedKw}
    \cup {write_pending_keywords(d, GenKeywords, c) : d \in Dates, c \in Contents}

\* what a hand can leave in pending_keywords.txt: a record of any date and
\* fingerprint, with keywords of any kind, or no file
EditedKw ==
    [kind : {"dict"}, hasDate : {TRUE}, date : Dates, fp : 0..MaxContent,
     keywords : KwLists \cup {GenKeywords}]
    \cup {MissingKw}

\* pending_keywords.txt is edited while qcrear waits at a prompt between its
\* write of the record and the publish gate, which reads the file again.  An
\* edit that follows an edit only replaces it, so one is enough
EditPendingKw(payload) ==
    /\ run.prog = "qcrear"
    /\ run.pc \in {"publish_now", "branch"}
    /\ last.op # "write_kw"
    /\ WritePendingKw(payload)

\* the text file of a published entry is in data/textos, though a run that
\* stopped after writing it can have left another text than the published one
InitRun ==
    /\ layout = "state"
    /\ archivo \in RunArchives
    /\ pendingKw \in RunPendingKw
    /\ pendingEntry = MissingEntry
    /\ last = Outcome("none", FALSE, FALSE, TRUE, "", NoStatus)
    /\ written = [d \in Dates |-> MissingEntry]
    /\ txt \in [Dates -> 0..MaxContent]
    /\ \A d \in Dates : FindDate(archivo.entries, d) # 0 => txt[d] # 0
    /\ run = IdleRun
    /\ pull = NoPull
    /\ entry_txt = NoEntryTxt
    /\ lookup = NoLookup

\* one run: a program is started once, on files no run of this behaviour touched
\* git answers rev-parse and status; the tree holds a change outside the publish
\* that is not staged
NextRun ==
    \/ \E target \in Dates, dry \in BOOLEAN, auto \in BOOLEAN, docs \in 0..MaxContent :
          run.prog = "none" /\ QcrearStart(target, dry, auto, docs)
    \/ \E ans \in Answers : Preview(ans)
    \/ \E ans \in Answers : ConfirmDocs(ans)
    \/ \E ans \in Answers : Overwrite(ans)
    \/ \E ans \in Answers, branch \in {"main", "dev"} : UseExisting(ans, branch)
    \/ \E ans \in Answers, generated \in BOOLEAN : GenNow(ans, generated)
    \/ \E ans \in Answers : ConfirmKw(ans)
    \/ \E ans \in Answers, branch \in {"main", "dev"} : PublishNow(ans, branch)
    \/ \E ans \in Answers : Branch(ans)
    \/ \E ans \in Answers, git \in {"ok", "commit_fails", "push_fails"} :
          ConfirmPublish(ans, git, "unstaged")
    \/ \E payload \in EditedKw : EditPendingKw(payload)
    \/ \E target \in Dates : run.prog = "none" /\ QcambiarStart(target)
    \/ \E change_poem \in Answers, change_text \in Answers, change_kw \in Answers,
          docs \in 0..MaxContent : QcMenu(change_poem, change_text, change_kw, docs)
    \/ \E preview \in Answers, ok \in Answers : QcConfirmDocs(preview, ok)
    \/ \E mode \in {"r", "e", "n", "salir"}, cont \in Answers, save \in Answers :
          QcKeywordsText(mode, cont, save)
    \/ \E mode \in {"r", "e", "n", "salir"}, save \in Answers : QcKeywordsOnly(mode, save)
    \/ \E ans \in Answers, branch \in {"main", "dev"} : QcPublishNow(ans, branch)
    \/ \E ans \in Answers : QcBranch(ans)
    \/ \E ans \in Answers, git \in {"ok", "commit_fails", "push_fails"} :
          QcConfirmPublish(ans, git, "unstaged")
    \/ \E date_str \in Dates, docs \in 0..MaxContent :
          run.prog = "none" /\ Q2Start(date_str, docs)
    \/ \E preview \in Answers, apply \in Answers, confirm \in Answers :
          Q2Text(preview, apply, confirm)
    \/ \E view \in Answers, apply \in Answers : Q2ApplyKw(view, apply)
    \/ \E regen \in Answers, replace \in Answers, generated \in BOOLEAN,
          view_new \in Answers : Q2Regen(regen, replace, generated, view_new)
    \/ \E ans \in Answers, branch \in {"main", "dev"} : Q2PublishNow(ans, branch)
    \/ \E ans \in Answers : Q2Branch(ans)
    \/ \E ans \in Answers, dirty \in Answers, git \in {"ok", "commit_fails", "push_fails"} :
          Q2Confirm(ans, dirty, git, "unstaged", "ok")

SpecRun == InitRun /\ [][NextRun]_vars

-----------------------------------------------------------------------------
(* One run of an orchestrator with git and the working tree in any condition *)

\* the files before the run are those of InitRun, and all of them are as
\* committed
InitPublish ==
    /\ layout = "state"
    /\ archivo \in RunArchives
    /\ pendingKw \in RunPendingKw
    /\ pendingEntry = MissingEntry
    /\ last = Outcome("none", FALSE, FALSE, TRUE, "", NoStatus)
    /\ written = [d \in Dates |-> MissingEntry]
    /\ txt \in [Dates -> 0..MaxContent]
    /\ \A d \in Dates : FindDate(archivo.entries, d) # 0 => txt[d] # 0
    /\ run = [IdleRun EXCEPT !.head_known = TRUE]
    /\ pull = NoPull
    /\ entry_txt = NoEntryTxt
    /\ lookup = NoLookup

\* one run; every git command can fail, and the tree can hold unrelated changes
NextPublish ==
    \/ \E target \in Dates, dry \in BOOLEAN, auto \in BOOLEAN, docs \in 0..MaxContent :
          run.prog = "none" /\ QcrearStart(target, dry, auto, docs)
    \/ \E ans \in Answers : Preview(ans)
    \/ \E ans \in Answers : ConfirmDocs(ans)
    \/ \E ans \in Answers : Overwrite(ans)
    \/ \E ans \in Answers, branch \in Branches : UseExisting(ans, branch)
    \/ \E ans \in Answers, generated \in BOOLEAN : GenNow(ans, generated)
    \/ \E ans \in Answers : ConfirmKw(ans)
    \/ \E ans \in Answers, branch \in Branches : PublishNow(ans, branch)
    \/ \E ans \in Answers : Branch(ans)
    \/ \E ans \in Answers, git \in GitOutcomes, tree \in Trees :
          ConfirmPublish(ans, git, tree)
    \/ \E target \in Dates : run.prog = "none" /\ QcambiarStart(target)
    \/ \E change_poem \in Answers, change_text \in Answers, change_kw \in Answers,
          docs \in 0..MaxContent : QcMenu(change_poem, change_text, change_kw, docs)
    \/ \E preview \in Answers, ok \in Answers : QcConfirmDocs(preview, ok)
    \/ \E mode \in {"r", "e", "n", "salir"}, cont \in Answers, save \in Answers :
          QcKeywordsText(mode, cont, save)
    \/ \E mode \in {"r", "e", "n", "salir"}, save \in Answers : QcKeywordsOnly(mode, save)
    \/ \E ans \in Answers, branch \in Branches : QcPublishNow(ans, branch)
    \/ \E ans \in Answers : QcBranch(ans)
    \/ \E ans \in Answers, git \in GitOutcomes, tree \in Trees :
          QcConfirmPublish(ans, git, tree)
    \/ \E date_str \in Dates, docs \in 0..MaxContent :
          run.prog = "none" /\ Q2Start(date_str, docs)
    \/ \E preview \in Answers, apply \in Answers, confirm \in Answers :
          Q2Text(preview, apply, confirm)
    \/ \E view \in Answers, apply \in Answers : Q2ApplyKw(view, apply)
    \/ \E regen \in Answers, replace \in Answers, generated \in BOOLEAN,
          view_new \in Answers : Q2Regen(regen, replace, generated, view_new)
    \/ \E ans \in Answers, branch \in Branches : Q2PublishNow(ans, branch)
    \/ \E ans \in Answers : Q2Branch(ans)
    \/ \E ans \in Answers, dirty \in Answers, git \in GitOutcomes, tree \in Trees,
          status \in {"ok", "fails"} : Q2Confirm(ans, dirty, git, tree, status)


SpecPublish == InitPublish /\ [][NextPublish]_vars

-----------------------------------------------------------------------------
(* One write of a file by a process that can stop at any point of it *)

\* where the process stops: not at all; in Path.write_text after the file was
\* opened (truncated) or after a part of the data went out; in
\* _atomic_write_json before the rename of the temp file
Stops == {"no", "truncated", "partial", "tmp"}

\* path.write_text(data): open(path, "w") empties the file, then the data goes out
write_text(new, stop, broken) == IF stop = "no" THEN new ELSE broken

\* tmp.write_text(data); tmp.replace(path)
atomic_write_json(old, new, stop) == IF stop = "no" THEN new ELSE old

\* a file that holds nothing, or the head of a JSON text
BrokenKw(stop) == [kind |-> stop, hasDate |-> FALSE, date |-> 0, fp |-> 0, keywords |-> <<>>]
BrokenEntry(stop) == [kind |-> stop, entry |-> Entry(0, 0, <<>>)]
BrokenArchivo(stop) == [shape |-> stop, meta |-> 0, entries |-> <<>>]

\* write_pending_keywords(target, keywords, docs_fp) of qcrear, 2qcambiar, qcambiar
StoppedWritePendingKw(target, docs_fp, stop) ==
    /\ last.op = "none"
    /\ stop # "tmp"
    /\ pendingKw' = write_text(write_pending_keywords(target, GenKeywords, docs_fp),
                               stop, BrokenKw(stop))
    /\ last' = Outcome("write_kw", FALSE, FALSE, stop = "no", stop, NoStatus)
    /\ UNCHANGED <<lookup, entry_txt, pull, layout, archivo, pendingEntry, written, txt, run>>

\* apply_pending_entry_into_archivo: archivo_path.write_text(...)
StoppedApply(date_str, stop) ==
    /\ last.op = "none"
    /\ stop # "tmp"
    /\ \E r \in {apply_pending_entry_into_archivo(date_str, pendingEntry, archivo)} :
           /\ r.ok
           /\ archivo' = write_text(r.archivo, stop, BrokenArchivo(stop))
           /\ last' = Outcome("apply", FALSE, FALSE, stop = "no", stop,
                              [NoStatus EXCEPT !.date = date_str,
                                               !.archivo_written = (stop = "no")])
    /\ UNCHANGED <<lookup, entry_txt, pull, layout, pendingKw, pendingEntry, written, txt, run>>

\* qmp/merge_pending.py: make_pending_entry.py writes the pending entry with
\* write_text; main writes it again, and then the archive, with _atomic_write_json
StoppedMerge(date, content, apply, stop) ==
    /\ last.op = "none"
    /\ \E r \in {MergeRun(archivo, pendingKw, date, content, apply, FALSE, FALSE)} :
           /\ pendingEntry' =
                  IF stop \in {"truncated", "partial"}
                  THEN write_text(EntryFile(BuiltEntry(date, content)), stop, BrokenEntry(stop))
                  ELSE r.pendingEntry
           /\ archivo' = IF stop \in {"truncated", "partial"} THEN archivo
                         ELSE atomic_write_json(archivo, r.archivo, stop)
           /\ last' = Outcome("merge", apply, FALSE, r.ok /\ stop = "no",
                              IF r.ok THEN stop ELSE r.err, r.status)
    /\ UNCHANGED <<lookup, entry_txt, pull, layout, pendingKw, written, txt, run>>

InitStops ==
    /\ layout = "state"
    /\ archivo \in RunArchives
    /\ pendingKw \in RunPendingKw
    /\ pendingEntry \in {MissingEntry} \cup {EntryFile(BuiltEntry(d, c)) : d \in Dates, c \in Contents}
    /\ last = Outcome("none", FALSE, FALSE, TRUE, "", NoStatus)
    /\ written = [d \in Dates |-> MissingEntry]
    /\ txt = [d \in Dates |-> 0]
    /\ run = IdleRun
    /\ pull = NoPull
    /\ entry_txt = NoEntryTxt
    /\ lookup = NoLookup

NextStops ==
    \/ \E target \in Dates, docs_fp \in Contents, stop \in Stops :
          StoppedWritePendingKw(target, docs_fp, stop)
    \/ \E date_str \in Dates, stop \in Stops : StoppedApply(date_str, stop)
    \/ \E date \in Dates, content \in Contents, apply \in BOOLEAN, stop \in Stops :
          StoppedMerge(date, content, apply, stop)

SpecStops == InitStops /\ [][NextStops]_vars

-----------------------------------------------------------------------------
(* Fingerprints of the three sections, scripts/qcommon.py and qcrear.py *)

\* the longest text drawn character by character
MaxText == 3

TextChars == {"a", "b", " ", "\n", "\r"}

Texts == UNION {[1..n -> TextChars] : n \in 0..MaxText}

\* s.replace("\r\n", "\n")
RECURSIVE replace_crlf(_)
replace_crlf(s) ==
    IF s = <<>> THEN <<>>
    ELSE IF Len(s) >= 2 /\ s[1] = "\r" /\ s[2] = "\n"
         THEN <<"\n">> \o replace_crlf(Tail(Tail(s)))
         ELSE <<Head(s)>> \o replace_crlf(Tail(s))

\* s.replace("\r", "\n")
replace_cr(s) == [i \in 1..Len(s) |-> IF s[i] = "\r" THEN "\n" ELSE s[i]]

\* s.split("\n")
RECURSIVE split_lines(_)
split_lines(s) ==
    IF \A i \in 1..Len(s) : s[i] # "\n" THEN <<s>>
    ELSE LET k == CHOOSE i \in 1..Len(s) :
                      s[i] = "\n" /\ \A j \in 1..(i - 1) : s[j] # "\n"
         IN  <<SubSeq(s, 1, k - 1)>> \o split_lines(SubSeq(s, k + 1, Len(s)))

\* "\n".join(lines)
RECURSIVE join_lines(_)
join_lines(lines) ==
    IF lines = <<>> THEN <<>>
    ELSE IF Len(lines) = 1 THEN lines[1]
    ELSE lines[1] \o <<"\n">> \o join_lines(Tail(lines))

\* while lines and lines[0].strip() == "": lines.pop(0)
RECURSIVE pop_first_blank(_)
pop_first_blank(lines) ==
    IF lines # <<>> /\ strip(Head(lines)) = <<>> THEN pop_first_blank(Tail(lines))
    ELSE lines

\* while lines and lines[-1].strip() == "": lines.pop()
RECURSIVE pop_last_blank(_)
pop_last_blank(lines) ==
    IF lines # <<>> /\ strip(lines[Len(lines)]) = <<>>
    THEN pop_last_blank(SubSeq(lines, 1, Len(lines) - 1))
    ELSE lines

\* the same without ln.rstrip(): spaces at the end of a line are kept
normalize_text_for_hash_keep_trailing(s) ==
    LET all == split_lines(replace_cr(replace_crlf(s)))
    IN  join_lines(pop_last_blank(pop_first_blank(all)))

normalize_text_for_hash(s) ==
    LET all == split_lines(replace_cr(replace_crlf(s)))
        lines == [i \in 1..Len(all) |-> rstrip(all[i])]
    IN  join_lines(pop_last_blank(pop_first_blank(lines)))

\* "\n\n---\n\n"
Separator == <<"\n", "\n", "-", "-", "-", "\n", "\n">>

\* The digest is carried as the text it is taken of: two SHA-256 digests are
\* equal exactly when the payloads are, collisions of the hash aside.
docs_fingerprint(poem, poem_citado, texto) ==
    normalize_text_for_hash(poem) \o Separator
        \o normalize_text_for_hash(poem_citado) \o Separator
        \o normalize_text_for_hash(texto)

\* sections that hold the separator between two paragraphs
SeparatorTexts ==
    {<<"a">>, <<"b">>, <<"a">> \o Separator \o <<"b">>, <<"b">> \o Separator \o <<"a">>}

\* three sections, one of them drawn from a set and the others a fixed paragraph
OneSection(i, s) == [<<(<<"a">>), (<<"b">>), (<<"a", "b">>)>> EXCEPT ![i] = s]

SeparatorTriples == SeparatorTexts \X SeparatorTexts \X SeparatorTexts

\* fp = docs_fingerprint(poema, citado, texto) of the sections pulled
PullFingerprint ==
    /\ pull.docs # <<>>
    /\ pull.fp = "none"
    /\ pull' = [pull EXCEPT !.fp = docs_fingerprint(pull.docs[1], pull.docs[2], pull.docs[3])]
    /\ UNCHANGED <<lookup, entry_txt, layout, archivo, pendingKw, pendingEntry, last, written, txt, run>>

\* existing_fp = txt_fingerprint_from_file(txt_path), of the sections of the file
TxtFingerprint ==
    /\ pull.fp # "none"
    /\ pull.existing_fp = "none"
    /\ pull' = [pull EXCEPT
                  !.existing_fp = docs_fingerprint(pull.file[1], pull.file[2], pull.file[3])]
    /\ UNCHANGED <<lookup, entry_txt, layout, archivo, pendingKw, pendingEntry, last, written, txt, run>>

InitFingerprint ==
    /\ layout = "state"
    /\ archivo = ListRoot(<<>>)
    /\ pendingKw = MissingKw
    /\ pendingEntry = MissingEntry
    /\ last = Outcome("none", FALSE, FALSE, TRUE, "", NoStatus)
    /\ written = [d \in Dates |-> MissingEntry]
    /\ txt = [d \in Dates |-> 0]
    /\ run = IdleRun
    /\ \/ \E i \in 1..3, s \in Texts, t \in Texts :
             pull = [NoPull EXCEPT !.file = OneSection(i, s), !.docs = OneSection(i, t)]
       \/ \E p \in SeparatorTriples, q \in SeparatorTriples :
             pull = [NoPull EXCEPT !.file = p, !.docs = q]
    /\ entry_txt = NoEntryTxt
    /\ lookup = NoLookup

NextFingerprint ==
    \/ PullFingerprint
    \/ TxtFingerprint

SpecFingerprint == InitFingerprint /\ [][NextFingerprint]_vars

-----------------------------------------------------------------------------
(* Keyword normalization on its own: one merge that applies any pending list *)

\* the longest pending keyword list
MaxKw == 3

NormWords == {<<"a">>, <<"á">>, <<"A", " ">>, <<"b">>}

\* "weight" absent or not a number (int() raises), or the number 0, 2 or 5;
\* and an item whose word is blank
NormItems ==
    {Item(w, 0, FALSE) : w \in NormWords}
    \cup {Item(w, n, TRUE) : w \in NormWords, n \in {0, 2, 5}}
    \cup {ItBlank}

NormLists == UNION {[1..n -> NormItems] : n \in 0..MaxKw}

\* the accepted shapes: [...], {"keywords": [...]}, {"date": .., "keywords": [...]}
NormPayloads ==
    {[kind |-> k[1], hasDate |-> k[2], date |-> k[3], fp |-> 0, keywords |-> kws] :
        k \in {<<"list", FALSE, 0>>, <<"dict", FALSE, 0>>, <<"dict", TRUE, 1>>},
        kws \in NormLists}

\* MAX_KEYWORDS of qmp/gen_keywords.py, the most keywords a generation returns
MAX_KEYWORDS == 25

\* a list pasted by hand with one keyword more than a generation returns,
\* the words b, bb, bbb, ...
LongKwList == [i \in 1..(MAX_KEYWORDS + 1) |-> Item([j \in 1..i |-> "b"], 2, TRUE)]

LongPayload ==
    [kind |-> "dict", hasDate |-> TRUE, date |-> 1, fp |-> 0, keywords |-> LongKwList]

InitNormalize ==
    /\ layout = "state"
    /\ archivo = ListRoot(<<HistoricEntry>>)
    /\ pendingKw \in NormPayloads \cup {LongPayload}
    /\ pendingEntry = MissingEntry
    /\ last = Outcome("none", FALSE, FALSE, TRUE, "", NoStatus)
    /\ written = [d \in Dates |-> MissingEntry]
    /\ txt = [d \in Dates |-> 0]
    /\ run = IdleRun
    /\ pull = NoPull
    /\ entry_txt = NoEntryTxt
    /\ lookup = NoLookup

\* merge_pending.py TXT --apply-keywords, for the date of the entry
NextNormalize ==
    last.op = "none" /\ Merge(1, 1, TRUE, FALSE, FALSE)

SpecNormalize == InitNormalize /\ [][NextNormalize]_vars

-----------------------------------------------------------------------------
(* The entry text file, scripts/validate_entry.py *)
(* A text is the lines raw.splitlines() gives and whether it ends in a line *)
(* break, for a file written with LF.  A line is a sequence of tokens: the   *)
(* words in capitals, "#", ":", " ", a date, a word "x".  POEMA_CITADO is    *)
(* the tokens POEMA and _CITADO, so that "# POEMA" is found in it as in the  *)
(* text.                                                                     *)

SECTION_ORDER == <<"POEMA", "POEMA_CITADO", "TEXTO">>

META_KEYS ==
    <<(<<"FECHA">>), (<<"MY_POEM_TITLE">>), (<<"POETA">>), (<<"POEM_TITLE">>),
      (<<"BOOK_TITLE">>)>>

\* the tokens [A-Z_]+ matches
UpperTokens ==
    {"FECHA", "MY_POEM_TITLE", "POETA", "POEM_TITLE", "BOOK_TITLE", "POEMA", "_CITADO",
     "TEXTO", "OTRO"}

\* f"# {name}"
HeaderText(name) ==
    CASE name = "POEMA" -> <<"#", " ", "POEMA">>
      [] name = "POEMA_CITADO" -> <<"#", " ", "POEMA", "_CITADO">>
      [] OTHER -> <<"#", " ", "TEXTO">>

\* the date as YYYY-MM-DD, one token
DateText(d) == <<ToString(d)>>

\* HDR_RE, ^\s*#\s*(POEMA|POEMA_CITADO|TEXTO)\s*$, on one line: the name, or ""
HeaderName(line) ==
    LET t == strip(line)
        n == IF t # <<>> /\ Head(t) = "#" THEN lstrip(Tail(t)) ELSE <<>>
    IN  IF n = <<"POEMA">> THEN "POEMA"
        ELSE IF n = <<"POEMA", "_CITADO">> THEN "POEMA_CITADO"
        ELSE IF n = <<"TEXTO">> THEN "TEXTO"
        ELSE ""

RECURSIVE UpperRun(_)
UpperRun(s) == IF s # <<>> /\ Head(s) \in UpperTokens THEN 1 + UpperRun(Tail(s)) ELSE 0

\* META_LINE_RE.match(line), ^\s*([A-Z_]+)\s*:\s*(.*)\s*$
MetaLine(line) ==
    LET t == lstrip(line)
        n == UpperRun(t)
        after == lstrip(SubSeq(t, n + 1, Len(t)))
    IN  IF n > 0 /\ after # <<>> /\ Head(after) = ":"
        THEN [ok |-> TRUE, k |-> SubSeq(t, 1, n), v |-> lstrip(Tail(after))]
        ELSE [ok |-> FALSE, k |-> <<>>, v |-> <<>>]

\* the loop of _parse_meta_and_rest from line i on; meta is the dict as the
\* sequence of its assignments
RECURSIVE ParseMetaFrom(_, _, _)
ParseMetaFrom(lines, i, meta) ==
    IF i > Len(lines) THEN [meta |-> meta, rest |-> <<>>]
    ELSE IF strip(lines[i]) = <<>>
         THEN [meta |-> meta, rest |-> SubSeq(lines, i + 1, Len(lines))]
    ELSE IF ~MetaLine(lines[i]).ok
         THEN [meta |-> meta, rest |-> SubSeq(lines, i, Len(lines))]
    ELSE ParseMetaFrom(lines, i + 1,
                       Append(meta, [k |-> MetaLine(lines[i]).k, v |-> MetaLine(lines[i]).v]))

_parse_meta_and_rest(raw) == ParseMetaFrom(raw.lines, 1, <<>>)

\* k in meta
MetaHas(meta, k) == \E i \in 1..Len(meta) : meta[i].k = k

\* meta.get(k, "")
MetaGet(meta, k) ==
    IF MetaHas(meta, k)
    THEN meta[CHOOSE i \in 1..Len(meta) :
                 meta[i].k = k /\ \A j \in (i + 1)..Len(meta) : meta[j].k # k].v
    ELSE <<>>

\* the lines HDR_RE matches
HeaderLines(body) == {i \in 1..Len(body) : HeaderName(body[i]) # ""}

\* body[m.end() : next m.start()], as the lines between the two header lines
SectionAfter(body, i) ==
    LET later == {j \in HeaderLines(body) : j > i}
        e == IF later = {} THEN Len(body)
             ELSE (CHOOSE j \in later : \A l \in later : j <= l) - 1
    IN  SubSeq(body, i + 1, e)

\* name in _extract_sections(body)
SectionsHas(body, name) == \E i \in HeaderLines(body) : HeaderName(body[i]) = name

\* _extract_sections(body)[name]: out[name] is assigned per match, the last one stays
SectionsGet(body, name) ==
    SectionAfter(body, CHOOSE i \in HeaderLines(body) :
                          /\ HeaderName(body[i]) = name
                          /\ \A j \in HeaderLines(body) : HeaderName(body[j]) = name => j <= i)

\* body.find(f"# {name}"): 0 for -1, else a number that grows with the position
FindHeaderText(body, name) ==
    LET pat == HeaderText(name)
        hits == {p \in UNION {{<<i, k>> : k \in 1..Len(body[i])} : i \in 1..Len(body)} :
                    /\ p[2] + Len(pat) - 1 <= Len(body[p[1]])
                    /\ SubSeq(body[p[1]], p[2], p[2] + Len(pat) - 1) = pat}
        pos(p) == 100 * p[1] + p[2]
    IN  IF hits = {} THEN 0
        ELSE pos(CHOOSE p \in hits : \A q \in hits : pos(p) <= pos(q))

\* content.strip() is not empty
HasContent(lines) == \E i \in 1..Len(lines) : strip(lines[i]) # <<>>

_is_real_iso_date(s) == s \in {DateText(d) : d \in Dates}

\* positions["POEMA"] < positions["POEMA_CITADO"] < positions["TEXTO"]
OrderValid(body) ==
    /\ FindHeaderText(body, "POEMA") < FindHeaderText(body, "POEMA_CITADO")
    /\ FindHeaderText(body, "POEMA_CITADO") < FindHeaderText(body, "TEXTO")

\* "ok", or why SystemExit is raised; the file is named after date_str
parse_and_validate(date_str, raw) ==
    LET p == _parse_meta_and_rest(raw)
        meta == p.meta
        body == p.rest
        file_fecha == strip(MetaGet(meta, <<"FECHA">>))
    IN  IF \E i \in 1..Len(META_KEYS) : ~MetaHas(meta, META_KEYS[i]) THEN "missing_meta"
        ELSE IF file_fecha = <<>> THEN "fecha_empty"
        ELSE IF ~_is_real_iso_date(file_fecha) THEN "fecha_invalid"
        ELSE IF file_fecha # DateText(date_str) THEN "fecha_mismatch"
        ELSE IF \E i \in 1..3 : ~SectionsHas(body, SECTION_ORDER[i]) THEN "missing_section"
        ELSE IF \E i \in 1..3 : FindHeaderText(body, SECTION_ORDER[i]) = 0
             THEN "headers_not_found"
        ELSE IF ~OrderValid(body) THEN "bad_order"
        ELSE IF \E i \in 1..3 : ~HasContent(SectionsGet(body, SECTION_ORDER[i]))
             THEN "empty_section"
        ELSE "ok"

\* s.rstrip() of a text given as lines
RstripText(lines) ==
    LET kept == pop_last_blank(lines)
    IN  IF kept = <<>> THEN <<>>
        ELSE [kept EXCEPT ![Len(kept)] = rstrip(@)]

\* a bug: the section is taken with the blank lines around it
clean_section_kept(s) == s

\* s.strip("\n").rstrip() of a section; what HDR_RE took of the blank lines
\* around the section makes no difference to it
clean_section(s) == RstripText(pop_first_blank(s))

\* [text, changed]
normalize_text(date_str, raw) ==
    LET p == _parse_meta_and_rest(raw)
        value(i) == IF i = 1 THEN DateText(date_str) ELSE MetaGet(p.meta, META_KEYS[i])
        meta_lines == [i \in 1..Len(META_KEYS) |-> META_KEYS[i] \o <<":", " ">> \o strip(value(i))]
        meta_block == RstripText(meta_lines)
        content(name) ==
            LET c == clean_section(SectionsGet(p.rest, name))
            IN  IF c = <<>> THEN <<(<<>>)>> ELSE c
        section(name) == <<HeaderText(name), (<<>>)>> \o content(name)
        parts == meta_block \o <<(<<>>)>> \o section("POEMA") \o <<(<<>>)>>
                    \o section("POEMA_CITADO") \o <<(<<>>)>> \o section("TEXTO")
        normalized == [lines |-> RstripText(parts), nl |-> TRUE]
    IN  [text |-> normalized, changed |-> normalized # raw]

Answered(op, err, changed) == [op |-> op, ok |-> err = "ok", err |-> err, changed |-> changed]

\* validate_entry.py --mode validate DATE textos/DATE.txt
Validate ==
    /\ entry_txt.out.op = "none"
    /\ entry_txt' = [entry_txt EXCEPT
                       !.out = Answered("validate",
                                        parse_and_validate(entry_txt.date, entry_txt.raw), FALSE)]
    /\ UNCHANGED <<lookup, pull, layout, archivo, pendingKw, pendingEntry, last, written, txt, run>>

\* run_validate_and_normalize_txt: validate_entry.py --mode normalize, and the
\* file rewritten when the formatting changed
Normalize ==
    /\ entry_txt.out.op \in {"none", "normalize"}
    /\ entry_txt.out.ok
    /\ \E r \in {parse_and_validate(entry_txt.date, entry_txt.raw)} :
          IF r # "ok"
          THEN entry_txt' = [entry_txt EXCEPT !.out = Answered("normalize", r, FALSE)]
          ELSE \E n \in {normalize_text(entry_txt.date, entry_txt.raw)} :
                  entry_txt' = [entry_txt EXCEPT
                                  !.raw = IF n.changed THEN n.text ELSE @,
                                  !.out = Answered("normalize", "ok", n.changed)]
    /\ UNCHANGED <<lookup, pull, layout, archivo, pendingKw, pendingEntry, last, written, txt, run>>

\* the longest body drawn line by line
MaxBody == 6

\* the lines of a body: the three headers, a line of text, and a
\* line of text that names a header
ArrangeLines ==
    {HeaderText("POEMA"), HeaderText("POEMA_CITADO"), HeaderText("TEXTO"),
     <<"x">>, <<"x", " ", "#", " ", "TEXTO">>}

ArrangedBodies == UNION {[1..n -> ArrangeLines] : n \in 0..MaxBody}

\* bodies that name a header twice
RepeatedBodies ==
    {<<HeaderText("POEMA"), HeaderText("POEMA_CITADO"), (<<"x">>), HeaderText("TEXTO"),
       (<<"x">>), HeaderText("POEMA"), (<<"x">>)>>,
     <<HeaderText("POEMA"), (<<"x">>), HeaderText("POEMA_CITADO"), (<<"x">>),
       HeaderText("TEXTO"), (<<"x">>), HeaderText("TEXTO"), (<<"x">>)>>}

DateLine(d) == <<"FECHA", ":", " ">> \o DateText(d)

\* the metadata block as qcrear writes it, for the first date
GoodMeta ==
    <<DateLine(1), (<<"MY_POEM_TITLE", ":", " ", "x">>), (<<"POETA", ":", " ", "x">>),
      (<<"POEM_TITLE", ":", " ", "x">>), (<<"BOOK_TITLE", ":", " ", "x">>), (<<>>)>>

\* metadata blocks written by hand: lines left out, left empty, spaced freely
MetaBlocks ==
    {fecha \o <<(<<"MY_POEM_TITLE", ":", " ", "x">>)>> \o poeta
        \o <<(<<"POEM_TITLE", ":", " ", "x">>)>> \o book \o sep :
        fecha \in {<<DateLine(1)>>, <<DateLine(2)>>, <<(<<"FECHA", ":">>)>>,
                   <<(<<"FECHA", ":", " ", "x">>)>>, <<>>},
        poeta \in {<<(<<"POETA", ":", " ", "x">>)>>, <<(<<"POETA", ":">>)>>,
                   <<(<<" ", "POETA", " ", ":", " ", " ", "x", " ">>)>>, <<>>},
        book \in {<<(<<"BOOK_TITLE", ":", " ", "x">>)>>, <<(<<"BOOK_TITLE", ":", " ">>)>>,
                  <<(<<"BOOK_TITLE", ":", " ", "x">>), (<<"OTRO", ":", " ", "x">>)>>, <<>>},
        sep \in {<<(<<>>)>>, <<>>}}

\* the text of one section with its blank lines and spaces
ContentBlocks ==
    {<<(<<"x">>)>>,
     <<(<<>>), (<<" ", "x", " ">>), (<<" ">>)>>,
     <<(<<"x", " ">>), (<<" ">>), (<<"x">>), (<<>>)>>,
     <<(<<" ">>)>>}

\* the three sections in order, the headers spaced freely or not
FormattedBodies ==
    {<<h[1]>> \o a \o <<h[2]>> \o b \o <<h[3]>> \o c :
        h \in {<<HeaderText("POEMA"), HeaderText("POEMA_CITADO"), HeaderText("TEXTO")>>,
               <<(<<" ", "#", "POEMA", " ">>), (<<"#", " ", " ", "POEMA", "_CITADO">>),
                 (<<" ", "#", " ", "TEXTO">>)>>},
        a \in ContentBlocks, b \in ContentBlocks, c \in ContentBlocks}

\* the three sections with the same text and plain headers
PlainBodies ==
    {<<HeaderText("POEMA")>> \o a \o <<HeaderText("POEMA_CITADO")>> \o a
        \o <<HeaderText("TEXTO")>> \o a : a \in ContentBlocks}

\* a metadata block spaced freely, its last value empty, no blank line after it
LooseMeta ==
    <<DateLine(1), (<<"MY_POEM_TITLE", ":", " ", "x">>),
      (<<" ", "POETA", " ", ":", " ", " ", "x", " ">>), (<<"POEM_TITLE", ":", " ", "x">>),
      (<<"BOOK_TITLE", ":", " ">>)>>

EntryTexts ==
    {[lines |-> GoodMeta \o body, nl |-> TRUE] : body \in ArrangedBodies \cup RepeatedBodies}
    \cup {[lines |-> meta \o body, nl |-> nl] :
            meta \in MetaBlocks, body \in PlainBodies, nl \in BOOLEAN}
    \cup {[lines |-> meta \o body, nl |-> nl] :
            meta \in {GoodMeta, LooseMeta}, body \in FormattedBodies, nl \in BOOLEAN}

InitValidate ==
    /\ layout = "state"
    /\ archivo = ListRoot(<<>>)
    /\ pendingKw = MissingKw
    /\ pendingEntry = MissingEntry
    /\ last = Outcome("none", FALSE, FALSE, TRUE, "", NoStatus)
    /\ written = [d \in Dates |-> MissingEntry]
    /\ txt = [d \in Dates |-> 0]
    /\ run = IdleRun
    /\ pull = NoPull
    /\ \E raw \in EntryTexts :
          /\ raw.nl \/ raw.lines[Len(raw.lines)] # <<>>
          /\ entry_txt = [NoEntryTxt EXCEPT !.date = 1, !.raw = raw]
          /\ lookup = NoLookup

NextValidate ==
    \/ Validate
    \/ Normalize

SpecValidate == InitValidate /\ [][NextValidate]_vars

-----------------------------------------------------------------------------
(* The text file rendered by qcrear.py and its fingerprint *)

\* render_txt(target, ...) with every metadata value "x": the text of the file
render_txt(target, poema, poema_citado, texto) ==
    join_lines(<<DateLine(target), (<<"MY_POEM_TITLE", ":", " ", "x">>),
                 (<<"POETA", ":", " ", "x">>), (<<"POEM_TITLE", ":", " ", "x">>),
                 (<<"BOOK_TITLE", ":", " ", "x">>), (<<>>),
                 HeaderText("POEMA"), normalize_text_for_hash(poema), (<<>>),
                 HeaderText("POEMA_CITADO"), normalize_text_for_hash(poema_citado), (<<>>),
                 HeaderText("TEXTO"), normalize_text_for_hash(texto), (<<>>)>>)

\* for ln in lines[start:]: if ln.startswith("# "): break
RECURSIVE until_header(_)
until_header(lines) ==
    IF lines = <<>> THEN <<>>
    ELSE IF Len(Head(lines)) >= 2 /\ Head(lines)[1] = "#" /\ Head(lines)[2] = " " THEN <<>>
    ELSE <<Head(lines)>> \o until_header(Tail(lines))

\* the lines under the first line equal to the header, up to the next "# " line
extract_section(text, header) ==
    LET lines == split_lines(replace_cr(replace_crlf(text)))
    IN  IF \A i \in 1..Len(lines) : lines[i] # header THEN <<>>
        ELSE LET start == CHOOSE i \in 1..Len(lines) :
                              lines[i] = header /\ \A j \in 1..(i - 1) : lines[j] # header
             IN  join_lines(until_header(SubSeq(lines, start + 1, Len(lines))))

\* None of a file that lacks a section
NoFingerprint == <<"None">>

txt_fingerprint_from_file(raw) ==
    LET poema == extract_section(raw, HeaderText("POEMA"))
        citado == extract_section(raw, HeaderText("POEMA_CITADO"))
        texto == extract_section(raw, HeaderText("TEXTO"))
    IN  IF \/ normalize_text_for_hash(poema) = <<>>
           \/ normalize_text_for_hash(citado) = <<>>
           \/ normalize_text_for_hash(texto) = <<>>
        THEN NoFingerprint
        ELSE docs_fingerprint(poema, citado, texto)

\* the characters of a pulled section: a letter, the heading mark, space, newline
DocChars == {"a", "#", " ", "\n"}

DocTexts == UNION {[1..n -> DocChars] : n \in 0..MaxText}

\* a section that holds a line reading as a header of the text file
HeaderTexts ==
    {<<"a", "\n">> \o HeaderText(h) \o <<"\n", "a">> : h \in {"POEMA", "POEMA_CITADO", "TEXTO"}}

\* write_txt_atomic(txt_path, render_txt(...)) of the sections pulled
RenderTxt ==
    /\ pull.fp # "none"
    /\ pull.rendered = <<>>
    /\ pull' = [pull EXCEPT !.rendered = render_txt(1, pull.docs[1], pull.docs[2], pull.docs[3])]
    /\ UNCHANGED <<lookup, entry_txt, layout, archivo, pendingKw, pendingEntry, last, written, txt, run>>

\* the next run: existing_txt_fp = txt_fingerprint_from_file(txt_path)
RenderedFingerprint ==
    /\ pull.rendered # <<>>
    /\ pull.existing_fp = "none"
    /\ pull' = [pull EXCEPT !.existing_fp = txt_fingerprint_from_file(pull.rendered)]
    /\ UNCHANGED <<lookup, entry_txt, layout, archivo, pendingKw, pendingEntry, last, written, txt, run>>

\* three sections that passed the pull's check: none empty after normalisation
InitRender ==
    /\ layout = "state"
    /\ archivo = ListRoot(<<>>)
    /\ pendingKw = MissingKw
    /\ pendingEntry = MissingEntry
    /\ last = Outcome("none", FALSE, FALSE, TRUE, "", NoStatus)
    /\ written = [d \in Dates |-> MissingEntry]
    /\ txt = [d \in Dates |-> 0]
    /\ run = IdleRun
    /\ \E i \in 1..3, s \in DocTexts \cup HeaderTexts :
          /\ normalize_text_for_hash(s) # <<>>
          /\ pull = [NoPull EXCEPT !.docs = OneSection(i, s)]
    /\ entry_txt = NoEntryTxt
    /\ lookup = NoLookup

NextRender ==
    \/ PullFingerprint
    \/ RenderTxt
    \/ RenderedFingerprint

SpecRender == InitRender /\ [][NextRender]_vars

-----------------------------------------------------------------------------
(* The text file on its way into the merge: qmp/make_pending_entry.py *)

\* date = meta.get("date") or txt_path.stem, DATE_RE.fullmatch(date); the header
\* is read by the same loop and pattern as in validate_entry.py, the value is
\* not stripped.  0: SystemExit "Invalid/missing date"
make_pending_entry_date(raw, stem) ==
    LET fecha == MetaGet(_parse_meta_and_rest(raw).meta, <<"FECHA">>)
        date == IF fecha = <<>> THEN DateText(stem) ELSE fecha
    IN  IF \E d \in Dates : date = DateText(d)
        THEN CHOOSE d \in Dates : date = DateText(d)
        ELSE 0

\* render_txt(target, payload) of 2qcambiar.py, every value and section "x"
q2_render_txt(target) ==
    [lines |-> <<DateLine(target), (<<"MY_POEM_TITLE", ":", " ", "x">>),
                 (<<"POETA", ":", " ", "x">>), (<<"POEM_TITLE", ":", " ", "x">>),
                 (<<"BOOK_TITLE", ":", " ", "x">>), (<<>>),
                 HeaderText("POEMA"), (<<"x">>), (<<>>),
                 HeaderText("POEMA_CITADO"), (<<"x">>), (<<>>),
                 HeaderText("TEXTO"), (<<"x">>)>>,
     nl |-> TRUE]

\* qmp/merge_pending.py TXT on the text file as it is now: the entry is built by
\* make_pending_entry.py and written to pending_entry.json, then merged
MergeTxt(raw, stem, content, apply) ==
    \E date \in {make_pending_entry_date(raw, stem)} :
        IF date = 0
        THEN /\ last' = Outcome("merge", apply, FALSE, FALSE, "invalid_date", NoStatus)
             /\ UNCHANGED <<archivo, pendingEntry, written>>
        ELSE \E r \in {MergeRun(archivo, pendingKw, date, content, apply, FALSE, FALSE)} :
                /\ archivo' = r.archivo
                /\ pendingEntry' = r.pendingEntry
                /\ last' = Outcome("merge", apply, FALSE, r.ok, r.err, r.status)
                /\ written' = IF r.ok THEN [written EXCEPT ![date] = r.pendingEntry]
                              ELSE written

\* qcrear.py 819-841 and qcambiar.py 520-533: run_validate_and_normalize_txt on
\* the text file of the target date, then the merge; qcrear has checked the
\* pending keywords and applies them, qcambiar applies them when they are of
\* the date
ValidateAndMerge(prog, content) ==
    /\ last.op = "none"
    /\ prog = "qcrear" =>
          /\ load_pending_keywords(pendingKw) = "ok"
          /\ pendingKw.date = entry_txt.date
          /\ pendingKw.keywords # <<>>
    /\ \E r \in {parse_and_validate(entry_txt.date, entry_txt.raw)} :
          IF r # "ok"
          THEN /\ entry_txt' = [entry_txt EXCEPT !.out = Answered("normalize", r, FALSE)]
               /\ last' = Outcome("validate", FALSE, FALSE, FALSE, r, NoStatus)
               /\ UNCHANGED <<archivo, pendingEntry, written>>
          ELSE \E n \in {normalize_text(entry_txt.date, entry_txt.raw)} :
                  /\ entry_txt' = [entry_txt EXCEPT
                                     !.raw = IF n.changed THEN n.text ELSE @,
                                     !.out = Answered("normalize", "ok", n.changed)]
                  /\ MergeTxt(IF n.changed THEN n.text ELSE entry_txt.raw, entry_txt.date,
                              content,
                              IF prog = "qcrear" THEN TRUE
                              ELSE qcambiar_apply_kw(pendingKw, entry_txt.date))
    /\ UNCHANGED <<lookup, pull, layout, pendingKw, txt, run>>

\* 2qcambiar.py 476-609: the text file is written again from the pull
\* (rendered) or left as it was found; the merge follows when the text was
\* written or keywords of the date are to be applied, with no validation
Q2MergeTxt(rendered, apply_keywords, content) ==
    /\ last.op = "none"
    /\ apply_keywords => pending_keywords_for_date(pendingKw, entry_txt.date)
    /\ rendered \/ apply_keywords
    /\ \E raw \in {IF rendered THEN q2_render_txt(entry_txt.date) ELSE entry_txt.raw} :
          /\ entry_txt' = [entry_txt EXCEPT !.raw = raw, !.out = Answered("render", "ok", rendered)]
          /\ MergeTxt(raw, entry_txt.date, content, apply_keywords)
    /\ UNCHANGED <<lookup, pull, layout, pendingKw, txt, run>>

\* the text file of the first date, as written by a run or edited by hand; the
\* archive with or without the date; keywords of the date, of the other date,
\* or none
InitEntryDate ==
    /\ layout = "state"
    /\ archivo \in {ListRoot(<<>>), ListRoot(<<PublishedEntry>>),
                     ListRoot(<<Entry(2, 1, normalize_keywords(AsPayload(GenKeywords)))>>),
                     ListRoot(<<Entry(2, 1, normalize_keywords(AsPayload(GenKeywords))),
                                PublishedEntry>>)}
    /\ pendingKw \in {write_pending_keywords(d, GenKeywords, 1) : d \in Dates}
                      \cup {MissingKw, PlaceholderKw}
    /\ pendingEntry = MissingEntry
    /\ last = Outcome("none", FALSE, FALSE, TRUE, "", NoStatus)
    /\ written = [d \in Dates |-> MissingEntry]
    /\ txt = [d \in Dates |-> 0]
    /\ run = IdleRun
    /\ pull = NoPull
    /\ lookup = NoLookup
    /\ \E raw \in {[lines |-> meta \o body, nl |-> TRUE] : meta \in MetaBlocks, body \in PlainBodies} :
          entry_txt = [NoEntryTxt EXCEPT !.date = 1, !.raw = raw]

NextEntryDate ==
    \/ \E prog \in {"qcrear", "qcambiar"}, content \in Contents : ValidateAndMerge(prog, content)
    \/ \E rendered \in BOOLEAN, apply_keywords \in BOOLEAN, content \in Contents :
          Q2MergeTxt(rendered, apply_keywords, content)

SpecEntryDate == InitEntryDate /\ [][NextEntryDate]_vars

-----------------------------------------------------------------------------
(* The existence checks of qcrear.py and qcambiar.py on one archive *)

\* qcrear DATE up to "Ya existe una entrada publicada": it goes on when walk
\* finds no object with the date
QcrearExists ==
    /\ lookup.qcrear = "none"
    /\ lookup' = [lookup EXCEPT !.qcrear = IF walk(lookup.json, lookup.target)
                                           THEN "refuses" ELSE "proceeds"]
    /\ UNCHANGED <<entry_txt, pull, layout, archivo, pendingKw, pendingEntry, last, written,
                   txt, run>>

\* qcambiar DATE up to "OK: entrada publicada encontrada": RuntimeError from
\* entries_list_from_archivo ends the run with 1, no entry with 0
QcambiarExists ==
    /\ lookup.qcambiar = "none"
    /\ \E r \in {find_entry_by_date(lookup.json, lookup.target)} :
          lookup' = [lookup EXCEPT !.qcambiar = IF r.raises THEN "raises"
                                                ELSE IF r.found THEN "proceeds"
                                                ELSE "refuses"]
    /\ UNCHANGED <<entry_txt, pull, layout, archivo, pendingKw, pendingEntry, last, written,
                   txt, run>>

\* an entry: an object with a date (0: without one) and no object inside
FlatEntries == {Json("dict", "", d, <<>>) : d \in 0..MaxDate}

\* an entry with an object that has a date of its own under one of its keys
NestedEntries ==
    {Json("dict", "", d, <<Json("dict", "other", d2, <<>>)>>) : d \in 0..MaxDate, d2 \in Dates}

\* what a list of the archive can hold: entries, a scalar, a list of one entry
JsonItems ==
    FlatEntries \cup NestedEntries \cup {Scalar("")}
    \cup {Json("list", "", 0, <<e>>) : e \in {x \in FlatEntries : x.date # 0}}

MaxItems == 2

JsonLists == UNION {[1..n -> JsonItems] : n \in 0..MaxItems}

\* archivo.json: a list; {"entries": [...]} with or without a date of its own;
\* an object that keeps its list under another key; "entries" that is no list;
\* a scalar
JsonArchives ==
    {Json("list", "", 0, es) : es \in JsonLists}
    \cup {Json("dict", "", d, <<Json("list", "entries", 0, es)>>) : d \in 0..MaxDate, es \in JsonLists}
    \cup {Json("dict", "", 0, <<Json("list", "other", 0, es)>>) : es \in JsonLists}
    \cup {Json("dict", "", 0, <<Json("dict", "entries", d, <<>>)>>) : d \in 0..MaxDate}
    \cup {Scalar("")}

InitExists ==
    /\ layout = "state"
    /\ archivo = ListRoot(<<>>)
    /\ pendingKw = MissingKw
    /\ pendingEntry = MissingEntry
    /\ last = Outcome("none", FALSE, FALSE, TRUE, "", NoStatus)
    /\ written = [d \in Dates |-> MissingEntry]
    /\ txt = [d \in Dates |-> 0]
    /\ run = IdleRun
    /\ pull = NoPull
    /\ entry_txt = NoEntryTxt
    /\ \E json \in JsonArchives, target \in Dates :
          lookup = [NoLookup EXCEPT !.json = json, !.target = target]

NextExists ==
    \/ QcrearExists
    \/ QcambiarExists

SpecExists == InitExists /\ [][NextExists]_vars

-----------------------------------------------------------------------------
(* Properties of the merge engine *)

\* the entry the archive holds for a date, as a sequence of at most one entry
EntryFor(arch, date) ==
    IF FindDate(arch.entries, date) = 0 THEN <<>>
    ELSE <<arch.entries[FindDate(arch.entries, date)]>>

NoDuplicateDates(arch) ==
    \A i, j \in 1..Len(arch.entries) :
        i # j => arch.entries[i].date # arch.entries[j].date

\* the step is a run of qmp/merge_pending.py
MergeStep == last'.op = "merge"

\* the candidate entry of that run
Candidate == pendingEntry'.entry

\* C1: after any sequence of merges, by any of the merge implementations, the
\* archive holds exactly one entry per date, and for every date that was merged
\* it is the entry of the last merge that wrote the archive for that date.
C1_OneEntryPerDate ==
    /\ NoDuplicateDates(archivo)
    /\ \A d \in Dates :
          written[d].kind = "entry" => EntryFor(archivo, d) = <<written[d].entry>>

\* every date was merged, and the last merge replaced the entry of its date by
\* one with another content
C1_Witness ==
    /\ \A d \in Dates : written[d].kind = "entry"
    /\ last.op = "merge" /\ last.ok /\ last.status.archivo_written
    /\ last.status.exists_before /\ last.status.content_changed
    /\ Len(archivo.entries) = MaxDate

\* C2: a merge for a date the archive has no entry for, whose resulting keyword
\* list is empty (no --apply-keywords, or a pending list that normalizes to
\* empty), fails and leaves the archive as it was.
C2_PublishGate ==
    [][(/\ MergeStep
        /\ EntryFor(archivo, Candidate.date) = <<>>
        /\ (last'.apply => normalize_keywords(pendingKw) = <<>>))
       => (~last'.ok /\ archivo' = archivo)]_vars

\* the gate stopped a merge that applied a non-empty list normalizing to empty
C2_Witness ==
    /\ last.op = "merge" /\ ~last.ok /\ last.err = "new_without_keywords"
    /\ last.apply /\ pendingKw.keywords # <<>>
    /\ EntryFor(archivo, pendingEntry.entry.date) = <<>>

\* C3: a merge that succeeds and writes the archive, for a date whose published
\* entry has a non-empty keyword list, writes an entry with a non-empty keyword list.
C3_KeywordsNeverDiscarded ==
    [][(/\ MergeStep /\ last'.ok /\ last'.status.archivo_written
        /\ EntryFor(archivo, Candidate.date) # <<>>
        /\ EntryFor(archivo, Candidate.date)[1].keywords # <<>>)
       => EntryFor(archivo', Candidate.date)[1].keywords # <<>>]_vars

\* C4: without --apply-keywords, on a date that has an entry, the written entry
\* carries the published keyword list unchanged (items and order),
\* keywords_changed is false, and content_changed is true iff a non-keyword
\* field of the candidate differs from the old entry.
C4_KeywordsPreserved ==
    [][(/\ MergeStep /\ last'.ok /\ ~last'.apply
        /\ EntryFor(archivo, Candidate.date) # <<>>)
       => LET old == EntryFor(archivo, Candidate.date)[1]
          IN  /\ Candidate.keywords = old.keywords
              /\ last'.status.archivo_written =>
                     EntryFor(archivo', Candidate.date)[1].keywords = old.keywords
              /\ ~last'.status.keywords_changed
              /\ last'.status.content_changed <=> (old.content # Candidate.content)]_vars

\* an entry with keywords out of normal order was re-merged with new content
C4_Witness ==
    /\ last.op = "merge" /\ last.ok /\ ~last.apply
    /\ last.status.exists_before /\ last.status.content_changed
    /\ last.status.archivo_written
    /\ EntryFor(archivo, last.status.date) # <<>>
    /\ EntryFor(archivo, last.status.date)[1].keywords # <<>>
    /\ EntryFor(archivo, last.status.date)[1].keywords
         # normalize_keywords(AsPayload(EntryFor(archivo, last.status.date)[1].keywords))

\* the pending record carries the date of the candidate
CarriesDate(payload, date) == payload.kind = "dict" /\ payload.hasDate /\ payload.date = date

\* C5 as claimed: with --apply-keywords, any pending record that does not carry
\* the candidate's date (another date, an empty date, no date field) makes the
\* merge fail, and nothing is written to the archive.
C5_AnyOtherDateFails ==
    [][(MergeStep /\ last'.apply /\ ~CarriesDate(pendingKw, Candidate.date))
       => (~last'.ok /\ archivo' = archivo)]_vars

\* C5 as the code has it: with --apply-keywords, a pending record that carries a
\* non-empty date other than the candidate's makes the merge fail, and nothing
\* is written to the archive.
C5_OtherDateFails ==
    [][(/\ MergeStep /\ last'.apply
        /\ pendingKw.kind = "dict" /\ pendingKw.hasDate
        /\ pendingKw.date # 0 /\ pendingKw.date # Candidate.date)
       => (~last'.ok /\ archivo' = archivo)]_vars

\* a merge was refused for a pending record of another date that holds keywords
C5_Witness ==
    /\ last.op = "merge" /\ ~last.ok /\ last.err = "date_mismatch"
    /\ pendingKw.keywords # <<>> /\ pendingKw.date # pendingEntry.entry.date

\* C6: in every status record, content_changed = (old is None) or (candidate
\* without keywords # old without keywords), and keywords_changed = (old is None
\* and the candidate has keywords) or (old exists and the normalized lists differ).
C6_ChangeDetection ==
    [][(MergeStep /\ last'.ok)
       => LET old == EntryFor(archivo, Candidate.date)
              NoKw(e) == <<e.date, e.content>>
              Norm(kws) == normalize_keywords(AsPayload(kws))
          IN  /\ last'.status.content_changed
                    <=> (old = <<>> \/ NoKw(Candidate) # NoKw(old[1]))
              /\ last'.status.keywords_changed
                    <=> \/ old = <<>> /\ Candidate.keywords # <<>>
                        \/ old # <<>> /\ Norm(Candidate.keywords) # Norm(old[1].keywords)]_vars

\* applied keywords equal to the published ones up to normalization: no change reported
C6_Witness ==
    /\ last.op = "merge" /\ last.ok /\ last.apply
    /\ last.status.exists_before /\ ~last.status.keywords_changed
    /\ ~last.status.content_changed
    /\ pendingEntry.entry.keywords # <<>>

\* C10: every write of the archive keeps the shape that was read, and the other
\* root fields of a wrapper object.
C10_ShapePreserved ==
    [][archivo'.shape = archivo.shape /\ archivo'.meta = archivo.meta]_vars

-----------------------------------------------------------------------------
(* Properties of a qcrear run *)

\* C7: within one publish run the archive file is written exactly once, and
\* only after pending keywords, text file and merge computation were validated:
\* never more than one write in a run, and one write in a run that published.
C7_WrittenOnce ==
    /\ run.writes <= 1
    /\ (run.pc = "done" /\ run.outcome = "published") => run.writes = 1

\* C8: when the user cancels the run at a prompt (an abort token, or a negative
\* answer to a confirmation, the final one included), the archive file is what
\* it was when the run started.
C8_CancelLeavesArchive ==
    (run.pc = "done" /\ run.outcome \in {"aborted", "declined", "no_keywords"})
        => archivo = run.start

\* C9: a run started with --dry-run never writes the archive file and never
\* commits or pushes, whether the keywords are generated or a pending record
\* is reused.
C9_DryRunWritesNothing ==
    run.dry => /\ archivo = run.start
               /\ run.writes = 0
               /\ ~run.committed /\ ~run.pushed

-----------------------------------------------------------------------------
(* Properties of a run of qcrear, qcambiar or 2qcambiar *)

\* the step runs git commit, and the commit succeeds
CommitStep == run'.committed /\ ~run.committed

\* the status the merge of this run reported: 2qcambiar merges and commits in
\* one step, qcrear and qcambiar merge before the final prompt
StatusOfRun == IF last'.op = "merge" THEN last'.status ELSE last.status

\* C11: no run commits when the merge status of the run reports
\* exists_before = true, content_changed = false and keywords_changed = false.
C11_NoopNeverCommitted ==
    [][CommitStep => ~(/\ StatusOfRun.exists_before
                       /\ ~StatusOfRun.content_changed
                       /\ ~StatusOfRun.keywords_changed)]_vars

\* the step takes a qcrear run through its publish gate: from the prompt before
\* it to the final prompt, or to the end of the run other than by the user or
\* by the branch check before the gate
GateStep ==
    /\ run.prog = "qcrear"
    /\ run.pc \in {"use_existing", "publish_now", "branch"}
    /\ run'.pc \in {"done", "confirm_publish"}
    /\ run'.outcome \notin {"aborted", "declined"}
    /\ run'.git_failed = "none"

C14_ResetAfterPublish ==
    (run.pc = "done" /\ run.outcome = "published")
        => /\ run.committed /\ run.pushed
           /\ pendingKw.kind = "dict" /\ pendingKw.hasDate
           /\ pendingKw.date = 0 /\ pendingKw.keywords = <<>>
           /\ pendingEntry.kind = "empty"
           /\ load_pending_keywords(pendingKw) = "none"
           /\ qcambiar_load_pending_keywords(pendingKw) = "none"
           /\ q2_load_pending_keywords(pendingKw) = "none"

\* qcrear published a new entry with the keywords of the pending record, and
\* the record is gone
C14_Witness ==
    /\ run.prog = "qcrear" /\ run.pc = "done" /\ run.outcome = "published"
    /\ EntryFor(run.start, run.target) = <<>>
    /\ EntryFor(archivo, run.target) # <<>>
    /\ EntryFor(archivo, run.target)[1].keywords # <<>>
    /\ pendingKw.keywords = <<>>

\* the step overwrites the pending entry file with the placeholder
ResetStep == pendingEntry'.kind = "empty" /\ pendingEntry.kind # "empty"

\* the step wrote the archive for the last time in the run and git failed
GitFailedStep ==
    /\ run.pc \in {"confirm_publish", "qc_confirm_publish", "q2_confirm"}
    /\ run'.pc = "done" /\ run'.outcome = "error"
    /\ run'.writes = run.writes + 1

\* C15: the pending files are overwritten with the placeholder only in a run
\* whose git commit and git push succeeded; when commit or push fails, both
\* pending files are left as they were.
C15_ResetOnlyAfterPublish ==
    [][/\ ResetStep => (run'.committed /\ run'.pushed)
       /\ GitFailedStep => (pendingKw' = pendingKw /\ pendingEntry' = pendingEntry)]_vars

-----------------------------------------------------------------------------
(* Properties of a write *)

\* C16: whenever the process stops during a write of the pending keywords
\* file, the pending entry file or the archive file, the file holds its
\* complete old content or its complete new content: never nothing, never a
\* part of the new content.
C16_WritesAtomic ==
    /\ pendingKw.kind \notin {"truncated", "partial"}
    /\ pendingEntry.kind \notin {"truncated", "partial"}
    /\ archivo.shape \notin {"truncated", "partial"}

-----------------------------------------------------------------------------
(* Properties of the fingerprint *)

\* C17: the fingerprints of two triples of sections are equal exactly when the
\* sections are equal one by one after normalization; two triples that split the
\* same text differently across the sections have different fingerprints.
C17_EqualIffSectionsEqual ==
    (pull.fp # "none" /\ pull.existing_fp # "none") =>
        ((pull.fp = pull.existing_fp)
            <=> \A i \in 1..3 :
                    normalize_text_for_hash(pull.docs[i])
                        = normalize_text_for_hash(pull.file[i]))

\* the text s, written with LF line endings, with every line ending written as e
RECURSIVE WithLineEndings(_, _)
WithLineEndings(s, e) ==
    IF s = <<>> THEN <<>>
    ELSE (IF Head(s) = "\n" THEN e ELSE <<Head(s)>>) \o WithLineEndings(Tail(s), e)

InsertAt(s, k, c) == SubSeq(s, 1, k) \o <<c>> \o SubSeq(s, k + 1, Len(s))

\* the positions of s after which a line ends
EndsOfLines(s) ==
    {k \in 0..Len(s) :
        /\ k = Len(s) \/ s[k + 1] \in {"\n", "\r"}
        /\ ~(k >= 1 /\ k < Len(s) /\ s[k] = "\r" /\ s[k + 1] = "\n")}

\* t is s in another line-ending style, or with a space at the end of a line,
\* or with one more blank line before or after it
SameTextAs(s, t) ==
    \/ /\ \A k \in 1..Len(s) : s[k] # "\r"
       /\ t \in {WithLineEndings(s, <<"\r", "\n">>), WithLineEndings(s, <<"\r">>)}
    \/ \E k \in EndsOfLines(s) : t = InsertAt(s, k, " ")
    \/ t \in {<<"\n">> \o s, s \o <<"\n">>, <<"\r">> \o s, s \o <<"\r">>,
              <<" ", "\n">> \o s, s \o <<"\n", " ">>}

\* the lines of s, written with LF line endings, with lines i and j swapped
SwapLines(s, i, j) ==
    LET lines == split_lines(s)
    IN  join_lines([k \in 1..Len(lines) |->
                       IF k = i THEN lines[j] ELSE IF k = j THEN lines[i] ELSE lines[k]])

\* t is s with a letter appended, or with two lines swapped that are not blank
\* and differ in more than the spaces at their end
OtherTextThan(s, t) ==
    \/ \E c \in {"a", "b"} : t = s \o <<c>>
    \/ /\ \A k \in 1..Len(s) : s[k] # "\r"
       /\ \E i, j \in 1..Len(split_lines(s)) :
             /\ rstrip(split_lines(s)[i]) # <<>>
             /\ rstrip(split_lines(s)[j]) # <<>>
             /\ rstrip(split_lines(s)[i]) # rstrip(split_lines(s)[j])
             /\ t = SwapLines(s, i, j)

\* C18: the fingerprint does not change with the line-ending style, with spaces
\* at the end of a line or with blank lines before or after a section, and it
\* changes when a letter is appended to a section or two of its lines are swapped.
C18_InsensitiveAndSensitive ==
    (pull.fp # "none" /\ pull.existing_fp # "none") =>
        \A i \in 1..3 :
            (\A j \in (1..3) \ {i} : pull.docs[j] = pull.file[j]) =>
                /\ SameTextAs(pull.file[i], pull.docs[i]) => pull.fp = pull.existing_fp
                /\ OtherTextThan(pull.file[i], pull.docs[i]) => pull.fp # pull.existing_fp

\* a section pulled with CR line endings was compared with the file's, written
\* with LF, and the two fingerprints are equal
C18_Witness ==
    /\ pull.file[2] = <<"a", "\n", "b">>
    /\ pull.docs[2] = <<"a", "\r", "b">>
    /\ pull.fp # "none"
    /\ pull.fp = pull.existing_fp

-----------------------------------------------------------------------------
(* Properties of keyword normalization *)

\* the keywords the merge put into the entry it built
MergedKeywords == pendingEntry.entry.keywords

\* C19: normalizing a normalized keyword list gives the same list, for a payload
\* of any accepted shape.
C19_NormalizeIdempotent ==
    /\ normalize_keywords(AsPayload(normalize_keywords(pendingKw)))
           = normalize_keywords(pendingKw)
    /\ (last.op = "merge" /\ last.ok) =>
           /\ MergedKeywords = normalize_keywords(pendingKw)
           /\ normalize_keywords(AsPayload(MergedKeywords)) = MergedKeywords

\* a merge applied a list of an object with a date in which one word comes twice,
\* written in two ways, next to another word
C19_Witness ==
    /\ last.op = "merge" /\ last.ok
    /\ pendingKw.kind = "dict"
    /\ Len(pendingKw.keywords) = MaxKw
    /\ \E i, j \in 1..Len(pendingKw.keywords) :
          /\ pendingKw.keywords[i].word = <<"A", " ">>
          /\ pendingKw.keywords[j].word = <<"á">>
          /\ pendingKw.keywords[i].weight = 2 /\ pendingKw.keywords[j].weight = 2
    /\ Len(MergedKeywords) = 2

\* the weight of item i of the pending list, 1 when absent, brought into 1..3
ClampedWeightAt(i) ==
    LET weight == IF pendingKw.keywords[i].hasWeight THEN pendingKw.keywords[i].weight ELSE 1
    IN  IF weight < 1 THEN 1 ELSE IF weight > 3 THEN 3 ELSE weight

\* the items of the pending list whose normalized word is w
ItemsOfWord(w) == {i \in 1..Len(pendingKw.keywords) : norm_word(pendingKw.keywords[i].word) = w}

C21_AtMostMaxKeywords ==
    (last.op = "merge" /\ last.ok /\ last.apply) =>
        /\ Len(MergedKeywords) <= MAX_KEYWORDS
        /\ \A i \in 1..Len(archivo.entries) :
               Len(archivo.entries[i].keywords) <= MAX_KEYWORDS

\* the pending payload with items i and i + 1 of its list swapped
SwappedPayload(i) ==
    [pendingKw EXCEPT !.keywords =
        [k \in 1..Len(pendingKw.keywords) |->
            IF k = i THEN pendingKw.keywords[i + 1]
            ELSE IF k = i + 1 THEN pendingKw.keywords[i]
            ELSE pendingKw.keywords[k]]]

\* C22: the normalized list is sorted by descending weight and, for equal weights,
\* by ascending word, and the same items given in another order (here: any two
\* neighbours swapped, which generates every order) normalize to the same list.
C22_SortedAndOrderFree ==
    (last.op = "merge" /\ last.ok /\ last.apply) =>
        /\ \A k \in 1..(Len(MergedKeywords) - 1) :
               \/ MergedKeywords[k].weight > MergedKeywords[k + 1].weight
               \/ /\ MergedKeywords[k].weight = MergedKeywords[k + 1].weight
                  /\ WordLess(MergedKeywords[k].word, MergedKeywords[k + 1].word)
        /\ \A i \in 1..(Len(pendingKw.keywords) - 1) :
               normalize_keywords(SwappedPayload(i)) = MergedKeywords

\* a merge applied a list that names b before an accented a, both with weight 2,
\* and the entry has a before b
C22_Witness ==
    /\ last.op = "merge" /\ last.ok /\ last.apply
    /\ Len(pendingKw.keywords) >= 2
    /\ pendingKw.keywords[1] = Item(<<"b">>, 2, TRUE)
    /\ pendingKw.keywords[2] = Item(<<"á">>, 2, TRUE)
    /\ MergedKeywords = <<Item(<<"a">>, 2, TRUE), Item(<<"b">>, 2, TRUE)>>


-----------------------------------------------------------------------------
(* Properties of the entry text file *)

\* the names of the header lines of a body, in their order
RECURSIVE NamesOf(_)
NamesOf(body) ==
    IF body = <<>> THEN <<>>
    ELSE (IF HeaderName(Head(body)) # "" THEN <<HeaderName(Head(body))>> ELSE <<>>)
            \o NamesOf(Tail(body))

\* the three headers, once each and in the order POEMA, POEMA_CITADO, TEXTO,
\* and a line of text under each
WellArranged(raw) ==
    LET body == _parse_meta_and_rest(raw).rest
    IN  /\ NamesOf(body) = SECTION_ORDER
        /\ \A i \in HeaderLines(body) : HasContent(SectionAfter(body, i))

\* the answers that reject the metadata block
MetaErrors == {"missing_meta", "fecha_empty", "fecha_invalid", "fecha_mismatch"}

\* C23: a text file whose metadata is accepted validates exactly when the
\* three headers # POEMA, # POEMA_CITADO, # TEXTO all appear, in this order,
\* and each of the three sections is non-empty; every other arrangement is
\* rejected.
C23_ValidIffArranged ==
    (entry_txt.out.op = "validate" /\ entry_txt.out.err \notin MetaErrors) =>
        (entry_txt.out.ok <=> WellArranged(entry_txt.raw))

\* the FECHA line of the file carries the date asked for
FechaGiven(date_str, raw) ==
    strip(MetaGet(_parse_meta_and_rest(raw).meta, <<"FECHA">>)) = DateText(date_str)

\* the section # TEXTO is absent or has no text
TextoMissing(raw) ==
    LET body == _parse_meta_and_rest(raw).rest
    IN  SectionsHas(body, "TEXTO") => ~HasContent(SectionsGet(body, "TEXTO"))

\* C24: parsing an entry text does not raise because one of the optional keys
\* MY_POEM_TITLE, POETA, POEM_TITLE, BOOK_TITLE is missing: with the date in
\* place it raises only when the section # TEXTO is absent or empty.
C24_RaisesOnlyWithoutTexto ==
    (entry_txt.out.op = "validate" /\ FechaGiven(entry_txt.date, entry_txt.raw)) =>
        (~entry_txt.out.ok => TextoMissing(entry_txt.raw))

\* C30: the normalization of the text file is idempotent: once the step has
\* run, the file holds its own output, and normalize_text applied to it gives
\* the same text and reports changed_formatting = false.
C30_NormalizeTextIdempotent ==
    (entry_txt.out.op = "normalize" /\ entry_txt.out.ok) =>
        normalize_text(entry_txt.date, entry_txt.raw) = [text |-> entry_txt.raw, changed |-> FALSE]

\* the step rewrote a file: its metadata or its section layout was not normal
C30_Witness ==
    /\ entry_txt.out.op = "normalize"
    /\ entry_txt.out.ok
    /\ entry_txt.out.changed
    /\ \E i \in 1..Len(entry_txt.raw.lines) : Len(entry_txt.raw.lines[i]) > 1 /\ Head(entry_txt.raw.lines[i]) = " "

-----------------------------------------------------------------------------
(* Properties of the exit code and of the version-control steps *)

\* C25: qcrear and qcambiar exit with code 0 after a publish, after a no-op
\* and after a cancellation by the user (an abort token or a confirmation
\* answered no), and with a non-zero code after a fatal failure.
C25_ExitCodes ==
    (run.prog # "none" /\ run.pc = "done") =>
        /\ run.outcome \in {"published", "noop", "nothing", "exists", "dry_run", "no_keywords",
                            "aborted", "declined"} => run.rc = 0
        /\ run.outcome = "error" => run.rc # 0

\* C26: a non-zero exit of a version-control command (status, add, commit,
\* push, rev-parse) is fatal: the run ends with an error and carries out no
\* later step, neither merge nor add, commit, push or reset of the pending files.
C26_GitFailureIsFatal ==
    run.git_failed # "none" =>
        /\ run.pc = "done" /\ run.outcome = "error" /\ run.rc # 0
        /\ run.later = {}

\* the files of a publish
PublishFiles == {"txt", "archivo", "pending_entry", "pending_kw"}

\* C27: whenever the working tree has uncommitted changes outside the files of
\* the publish, the run commits only after it warned the user and got a yes,
\* and after a no it neither merges nor commits nor pushes.
C27_WarnsOnDirtyTree ==
    /\ (run.committed /\ run.tree # "clean") => run.warned = "y"
    /\ run.warned = "n" =>
          /\ ~run.committed /\ ~run.pushed
          /\ last.op # "merge" /\ archivo = run.start

\* C28: the commit of a successful publish holds files of the publish only,
\* and when the run is over none of the four files differs from what was
\* committed: what the run changed is in the commit.
C28_CommitScoped ==
    run.outcome = "published" =>
        /\ run.commit \subseteq PublishFiles
        /\ run.modified = {}

-----------------------------------------------------------------------------
(* Properties of the upsert *)

\* the entries of a list whose date is not the given one, in their order
Others(entries, date) == SelectSeq(entries, LAMBDA e : e.date # date)

\* the step is a run of qmp/merge_pending.py, with or without --sort-by-date,
\* that wrote the archive; its date and text are those of the entry it built
UpsertStep(sort) ==
    /\ last'.op = "merge" /\ last'.ok /\ ~last'.dry
    /\ Merge(pendingEntry'.entry.date, pendingEntry'.entry.content, last'.apply, FALSE, sort)

\* C29: a merge for date D that writes the archive leaves every entry of
\* another date unchanged and makes the set of dates the old set plus D; when
\* no re-sort is requested, the entry of D is replaced at its position, or
\* appended when D is new, and the other entries keep their order.
C29_UpsertFrame ==
    [][LET D == last'.status.date
           old == archivo.entries
           new == archivo'.entries
           i == FindDate(old, D)
           Frame ==
               /\ {new[k].date : k \in 1..Len(new)} = {old[k].date : k \in 1..Len(old)} \cup {D}
               /\ {new[k] : k \in {j \in 1..Len(new) : new[j].date # D}}
                     = {old[k] : k \in {j \in 1..Len(old) : old[j].date # D}}
               /\ Len(new) = IF i = 0 THEN Len(old) + 1 ELSE Len(old)
               /\ \E k \in 1..Len(new) : new[k] = pendingEntry'.entry
           InPlace ==
               /\ Others(new, D) = Others(old, D)
               /\ new[IF i = 0 THEN Len(new) ELSE i] = pendingEntry'.entry
       IN  IF UpsertStep(FALSE) THEN Frame /\ InPlace
           ELSE UpsertStep(TRUE) => Frame]_vars

\* a merge without re-sort replaced the first entry of an archive of two that
\* is not in the order of the dates
C29_Witness ==
    /\ last.op = "merge" /\ last.ok /\ last.status.archivo_written
    /\ last.status.exists_before /\ last.status.content_changed
    /\ last.status.entry_index = 0
    /\ Len(archivo.entries) = 2
    /\ archivo.entries[1].date > archivo.entries[2].date
    /\ archivo.entries[1] = pendingEntry.entry

-----------------------------------------------------------------------------
(* Properties of the existence checks *)

\* the entries of an archive: the objects of the root list, or of the list
\* under "entries"
PublishedEntries(json) ==
    IF json.kind = "list" THEN {e \in {json.items[i] : i \in 1..Len(json.items)} : e.kind = "dict"}
    ELSE IF json.kind = "dict"
    THEN UNION {{e \in {l.items[i] : i \in 1..Len(l.items)} : e.kind = "dict"} :
                  l \in {x \in {json.items[i] : i \in 1..Len(json.items)} :
                            x.key = "entries" /\ x.kind = "list"}}
    ELSE {}

Published(json, date) == \E e \in PublishedEntries(json) : e.date = date

\* C31: on every archive and date exactly one of qcrear and qcambiar goes past
\* its existence check: qcrear iff the archive has no entry of the date,
\* qcambiar iff it has one.
C31_ExactlyOneProceeds ==
    (lookup.qcrear # "none" /\ lookup.qcambiar # "none") =>
        /\ (lookup.qcrear = "proceeds") # (lookup.qcambiar = "proceeds")
        /\ (lookup.qcrear = "proceeds") <=> ~Published(lookup.json, lookup.target)
        /\ (lookup.qcambiar = "proceeds") <=> Published(lookup.json, lookup.target)

-----------------------------------------------------------------------------
(* Properties of the date of the merged entry *)

\* the entries of an archive that are of another date
OtherEntries(arch, date) == {e \in {arch.entries[i] : i \in 1..Len(arch.entries)} : e.date # date}

\* C32: whenever an orchestrator run for date D invokes the merge, the entry
\* built from the text file has date D, and the archive entries of other dates
\* stay as they were.
C32_MergedEntryIsOfTarget ==
    [][last'.op = "merge" =>
          /\ pendingEntry'.kind = "entry" => pendingEntry'.entry.date = entry_txt.date
          /\ OtherEntries(archivo', entry_txt.date) = OtherEntries(archivo, entry_txt.date)]_vars

-----------------------------------------------------------------------------
(* Properties of the text file that qcrear merges *)

\* the step of a qcrear run in which merge_pending.py wrote the archive
QcrearMerged ==
    /\ run'.prog = "qcrear"
    /\ last'.op = "merge"
    /\ run'.writes = run.writes + 1

\* C33: whenever a qcrear run invokes the merge, the text file merged has the
\* fingerprint of this run's pull, which is also the docs_fingerprint of the
\* pending record; a text file that differs from the pulled source is never
\* merged.
C33_MergedTextMatchesPull ==
    [][QcrearMerged => /\ pendingKw.fp = run.fp
                       /\ txt[run.target] = run.fp]_vars

-----------------------------------------------------------------------------
(* Properties of the rendered text file *)

\* C34: the fingerprint of the file that render_txt wrote from three sections,
\* none empty after normalisation, equals docs_fingerprint of those sections.
C34_RenderRoundTrip ==
    pull.existing_fp # "none" /\ pull.rendered # <<>> => pull.existing_fp = pull.fp

-----------------------------------------------------------------------------
(* Properties of a qcrear run after an unfinished publish *)

\* the last run was qcrear for a date not yet published, got past the merge
\* step and ended without a commit
EndedAfterMerge ==
    /\ run.prog = "qcrear"
    /\ run.pc = "done"
    /\ ~date_exists_in_archivo(run.start, run.target)
    /\ run.writes > 0
    /\ ~run.committed

\* the next qcrear run for the same date
RunsAgain ==
    /\ run.pc = "done"
    /\ run'.prog = "qcrear"
    /\ run'.target = run.target
    /\ run'.fp # run.fp \/ run'.pc # "done" \/ run'.outcome # run.outcome \/ run'.rc # run.rc
           \/ run'.dry # run.dry \/ run'.auto # run.auto \/ run'.writes # run.writes

\* C35: a qcrear run for a new date that ended after the merge step without a
\* commit does not block the next qcrear run for that date: the next run is
\* not turned away with "Ya existe una entrada publicada".
C35_RerunNotBlocked ==
    [][(EndedAfterMerge /\ RunsAgain) => run'.outcome # "exists"]_vars

-----------------------------------------------------------------------------
(* Properties of the keywords that qcambiar saves *)

\* the step of qcambiar in which the user chose to regenerate or to edit the
\* keywords, the list came back non-empty and valid, and the user confirmed
KeywordsSaved ==
    /\ run.prog = "qcambiar"
    /\ GenKeywords # <<>>
    /\ \/ /\ run.pc = "qc_kw_text"
          /\ \E mode \in {"r", "e"}, cont \in Answers : QcKeywordsText(mode, cont, "y")
       \/ /\ run.pc = "qc_kw_only"
          /\ \E mode \in {"r", "e"} : QcKeywordsOnly(mode, "y")

\* C36: in qcambiar, when the user regenerates or edits the keywords, the list
\* is non-empty and valid and the user confirms saving, the run reaches
\* write_pending_keywords: the pending record then holds the target date and
\* exactly that list, and the run goes on.
C36_SavedKeywordsRecorded ==
    [][KeywordsSaved => /\ pendingKw'.hasDate
                        /\ pendingKw'.date = run.target
                        /\ pendingKw'.keywords = GenKeywords
                        /\ run'.pc = "qc_publish_now"]_vars

-----------------------------------------------------------------------------
(* Properties of qcrear --auto *)

\* a step of a qcrear run started with --auto, after its start
AutoStep ==
    /\ run.prog = "qcrear" /\ run.auto /\ run.pc # "done"
    /\ run'.prog = "qcrear" /\ run'.auto

=============================================================================
